---------------------------- MODULE Spec2Model ----------------------------
(***************************************************************************)
(* Model of the solvable orders cache of the orderbook crate               *)
(* (crates/orderbook/src/solvable_orders.rs).                              *)
(*                                                                         *)
(* Part 1 models the pure helpers (max_transfer_out_amount,                *)
(* solvable_orders, new_balances, filter_banned_user_orders,               *)
(* to_normalized_price, the price filter).                                 *)
(***************************************************************************)
EXTENDS Integers, Sequences, FiniteSets, TLC

(***************************************************************************)
(* Bounds of the model.                                                    *)
(***************************************************************************)
\* width of the unsigned integer standing for U256 (the code's is 256)
U256Bits == 4
\* longest order sequence given to solvable_orders
MaxOrders == 3
\* creation dates are 0..MaxDate
MaxDate == 1
\* pool balances given to solvable_orders are 0..MaxBalance
MaxBalance == 4

U256Max == 2 ^ U256Bits - 1

Owners == {1, 2}
Tokens == {1, 2, 3}

(***************************************************************************)
(* Result<U256>: [ok |-> TRUE, val |-> n] or Err.                          *)
(***************************************************************************)
Ok(n) == [ok |-> TRUE, val |-> n]
Err == [ok |-> FALSE, val |-> 0]

checked_add(a, b) == IF a + b > U256Max THEN Err ELSE Ok(a + b)
checked_mul(a, b) == IF a * b > U256Max THEN Err ELSE Ok(a * b)
checked_div(a, b) == IF b = 0 THEN Err ELSE Ok(a \div b)

\* U256::checked_sub as used on the remaining balance: None when b > a.
checked_sub(a, b) == IF b > a THEN Err ELSE Ok(a - b)

(***************************************************************************)
(* Maps (HashMap, BTreeMap) are functions; Option<T> is Some(v) or None.   *)
(***************************************************************************)
EmptyMap == [k \in {} |-> 0]
Put(map, key, value) ==
  [k \in DOMAIN map \cup {key} |-> IF k = key THEN value ELSE map[k]]
Restrict(map, keys) == [k \in DOMAIN map \cap keys |-> map[k]]

Some(v) == [some |-> TRUE, val |-> v]
None == [some |-> FALSE, val |-> 0]
Get(map, key) == IF key \in DOMAIN map THEN Some(map[key]) ELSE None

(***************************************************************************)
(* Orders.  An order is a record with the fields of OrderCreation and      *)
(* OrderMetadata that the cache reads.                                     *)
(***************************************************************************)
MkOrder(uid, owner, sell_token, buy_token, sell_amount, buy_amount, fee_amount, kind, partially_fillable, executed_sell_amount, executed_buy_amount, creation_date) ==
  [uid |-> uid, owner |-> owner, sell_token |-> sell_token, buy_token |-> buy_token,
   sell_token_balance |-> "erc20",
   sell_amount |-> sell_amount, buy_amount |-> buy_amount, fee_amount |-> fee_amount,
   kind |-> kind, partially_fillable |-> partially_fillable,
   executed_sell_amount |-> executed_sell_amount,
   executed_buy_amount |-> executed_buy_amount,
   creation_date |-> creation_date,
   available_balance |-> None]

\* Query::from_order: the balance pool an order draws from.
QueryFromOrder(order) == <<order.owner, order.sell_token, order.sell_token_balance>>

\* Order::remaining_amounts: the sell and fee amount scaled by the unfilled
\* fraction (amount * (total - executed) / total, checked); the full amounts
\* for a fill-or-kill order.
ScaleRemaining(amount, total, executed) ==
  LET remaining == checked_sub(total, executed)
  IN  IF ~remaining.ok THEN Err
      ELSE LET product == checked_mul(amount, remaining.val)
           IN  IF ~product.ok THEN Err ELSE checked_div(product.val, total)

RemainingAmounts(order) ==
  IF ~order.partially_fillable
  THEN [ok |-> TRUE, sell_amount |-> order.sell_amount, fee_amount |-> order.fee_amount]
  ELSE LET total == IF order.kind = "buy" THEN order.buy_amount ELSE order.sell_amount
           executed == IF order.kind = "buy" THEN order.executed_buy_amount
                       ELSE order.executed_sell_amount
           s == ScaleRemaining(order.sell_amount, total, executed)
           f == ScaleRemaining(order.fee_amount, total, executed)
       IN  IF s.ok /\ f.ok
           THEN [ok |-> TRUE, sell_amount |-> s.val, fee_amount |-> f.val]
           ELSE [ok |-> FALSE, sell_amount |-> 0, fee_amount |-> 0]

\* max_transfer_out_amount with a wrapping instead of a checked addition
MaxTransferOutAmountWrapping(order) ==
  LET amounts == RemainingAmounts(order)
  IN  IF ~amounts.ok THEN Err
      ELSE Ok((amounts.sell_amount + amounts.fee_amount) % (U256Max + 1))

\* max_transfer_out_amount scaling by the executed fraction whatever the
\* order, fill-or-kill orders too
MaxTransferOutAmountScalesAll(order) ==
  LET amounts == RemainingAmounts([order EXCEPT !.partially_fillable = TRUE])
  IN  IF ~amounts.ok THEN Err
      ELSE checked_add(amounts.sell_amount, amounts.fee_amount)

MaxTransferOutAmount(order) ==
  LET amounts == RemainingAmounts(order)
  IN  IF ~amounts.ok THEN Err
      ELSE checked_add(amounts.sell_amount, amounts.fee_amount)

(***************************************************************************)
(* solvable_orders                                                         *)
(***************************************************************************)
\* orders.sort_by_key(|order| Reverse(creation_date)): a stable sort, newest
\* first; orders of equal creation_date keep their input order.
\* the insertion of a sort by creation_date without Reverse: oldest first
RECURSIVE InsertByDateOldestFirst(_, _)
InsertByDateOldestFirst(sorted, order) ==
  IF sorted = <<>> THEN <<order>>
  ELSE IF Head(sorted).creation_date <= order.creation_date
       THEN <<Head(sorted)>> \o InsertByDateOldestFirst(Tail(sorted), order)
       ELSE <<order>> \o sorted

RECURSIVE InsertByDate(_, _)
InsertByDate(sorted, order) ==
  IF sorted = <<>> THEN <<order>>
  ELSE IF Head(sorted).creation_date >= order.creation_date
       THEN <<Head(sorted)>> \o InsertByDate(Tail(sorted), order)
       ELSE <<order>> \o sorted

RECURSIVE SortNewestFirstFrom(_, _)
SortNewestFirstFrom(sorted, rest) ==
  IF rest = <<>> THEN sorted
  ELSE SortNewestFirstFrom(InsertByDate(sorted, Head(rest)), Tail(rest))

\* the sort left out: orders stay in input order
SortNewestFirstNone(orders) == orders

SortNewestFirst(orders) == SortNewestFirstFrom(<<>>, orders)

\* orders_map.entry(key).or_default().push(order): the sub-sequence of one key
GroupOf(orders, key) == SelectSeq(orders, LAMBDA o : QueryFromOrder(o) = key)

KeysOf(orders) == {QueryFromOrder(orders[i]) : i \in DOMAIN orders}

\* the inner loop with the balance check left out
RECURSIVE AdmitGroupUnchecked(_, _)
AdmitGroupUnchecked(orders, remaining_balance) ==
  IF orders = <<>> THEN <<>>
  ELSE LET needed_balance == MaxTransferOutAmount(Head(orders))
       IN  IF ~needed_balance.ok \/ needed_balance.val = 0
           THEN AdmitGroupUnchecked(Tail(orders), remaining_balance)
           ELSE <<Head(orders)>> \o AdmitGroupUnchecked(Tail(orders), remaining_balance)

\* the inner loop ending the group at the first order that does not fit
RECURSIVE AdmitGroupBreak(_, _)
AdmitGroupBreak(orders, remaining_balance) ==
  IF orders = <<>> THEN <<>>
  ELSE LET needed_balance == MaxTransferOutAmount(Head(orders))
       IN  IF ~needed_balance.ok \/ needed_balance.val = 0
           THEN AdmitGroupBreak(Tail(orders), remaining_balance)
           ELSE LET balance == checked_sub(remaining_balance, needed_balance.val)
                IN  IF balance.ok
                    THEN <<Head(orders)>> \o AdmitGroupBreak(Tail(orders), balance.val)
                    ELSE <<>>

\* the inner loop without `Ok(balance) if balance.is_zero() => continue`
RECURSIVE AdmitGroupAdmitsZero(_, _)
AdmitGroupAdmitsZero(orders, remaining_balance) ==
  IF orders = <<>> THEN <<>>
  ELSE LET needed_balance == MaxTransferOutAmount(Head(orders))
       IN  IF ~needed_balance.ok
           THEN AdmitGroupAdmitsZero(Tail(orders), remaining_balance)
           ELSE LET balance == checked_sub(remaining_balance, needed_balance.val)
                IN  IF balance.ok
                    THEN <<Head(orders)>> \o AdmitGroupAdmitsZero(Tail(orders), balance.val)
                    ELSE AdmitGroupAdmitsZero(Tail(orders), remaining_balance)

\* the inner loop with a saturating subtraction: an order that does not fit
\* is skipped and leaves nothing of the balance
RECURSIVE AdmitGroupSkipConsumes(_, _)
AdmitGroupSkipConsumes(orders, remaining_balance) ==
  IF orders = <<>> THEN <<>>
  ELSE LET needed_balance == MaxTransferOutAmount(Head(orders))
       IN  IF ~needed_balance.ok \/ needed_balance.val = 0
           THEN AdmitGroupSkipConsumes(Tail(orders), remaining_balance)
           ELSE LET balance == checked_sub(remaining_balance, needed_balance.val)
                IN  IF balance.ok
                    THEN <<Head(orders)>> \o AdmitGroupSkipConsumes(Tail(orders), balance.val)
                    ELSE AdmitGroupSkipConsumes(Tail(orders), 0)

\* the inner loop of solvable_orders over one group, newest first
RECURSIVE AdmitGroup(_, _)
AdmitGroup(orders, remaining_balance) ==
  IF orders = <<>> THEN <<>>
  ELSE LET needed_balance == MaxTransferOutAmount(Head(orders))
       IN  IF ~needed_balance.ok \/ needed_balance.val = 0
           THEN AdmitGroup(Tail(orders), remaining_balance)
           ELSE LET balance == checked_sub(remaining_balance, needed_balance.val)
                IN  IF balance.ok
                    THEN <<Head(orders)>> \o AdmitGroup(Tail(orders), balance.val)
                    ELSE AdmitGroup(Tail(orders), remaining_balance)

\* the outer loop: `for (key, orders) in orders_map` visits the keys in the
\* hash map's iteration order, given here as key_order
RECURSIVE AdmitGroups(_, _, _)
AdmitGroups(sorted, balances, key_order) ==
  IF key_order = <<>> THEN <<>>
  ELSE LET key == Head(key_order)
       IN  (IF key \in DOMAIN balances
            THEN AdmitGroup(GroupOf(sorted, key), balances[key])
            ELSE <<>>)
           \o AdmitGroups(sorted, balances, Tail(key_order))

\* the admitted orders pushed onto the input instead of an empty Vec
SolvableOrdersOntoInput(orders, balances, key_order) ==
  orders \o AdmitGroups(SortNewestFirst(orders), balances, key_order)

SolvableOrders(orders, balances, key_order) ==
  AdmitGroups(SortNewestFirst(orders), balances, key_order)

\* the iteration orders a hash map with these keys can have
KeyOrders(keys) ==
  {s \in [1..Cardinality(keys) -> keys] : \A i, j \in DOMAIN s : i # j => s[i] # s[j]}

(***************************************************************************)
(* The other pure steps of SolvableOrdersCache::update.                    *)
(***************************************************************************)
\* the banned set looked up with the uid of the order
FilterBannedUserOrdersByUid(orders, banned_users) ==
  SelectSeq(orders, LAMBDA order : order.uid \notin banned_users)

\* filter_banned_user_orders: orders.retain(|order| !banned_users.contains(owner))
FilterBannedUserOrders(orders, banned_users) ==
  SelectSeq(orders, LAMBDA order : order.owner \notin banned_users)

\* filter_unsupported_tokens, given the tokens the detector reports bad
FilterUnsupportedTokens(orders, bad_tokens) ==
  SelectSeq(orders, LAMBDA order :
    order.sell_token \notin bad_tokens /\ order.buy_token \notin bad_tokens)

\* new_balances with the old balances never consulted: every query is missing
NewBalancesRefetchAll(old_balances, orders) ==
  [new_balances |-> EmptyMap, missing_queries |-> KeysOf(orders)]

\* new_balances starting from a copy of the old balances
NewBalancesKeepsOld(old_balances, orders) ==
  [new_balances |-> old_balances,
   missing_queries |-> KeysOf(orders) \ DOMAIN old_balances]

\* new_balances: the old balances of the orders' queries, and the queries
\* that have none
NewBalances(old_balances, orders) ==
  [new_balances |-> Restrict(old_balances, KeysOf(orders)),
   missing_queries |-> KeysOf(orders) \ DOMAIN old_balances]

\* the loop with a balance of 0 inserted for an Err
InsertFetchedZeroOnErr(new_balances, missing_queries, fetched_balances) ==
  [q \in DOMAIN new_balances \cup missing_queries |->
     IF q \in missing_queries
     THEN (IF fetched_balances[q].ok THEN fetched_balances[q].val ELSE 0)
     ELSE new_balances[q]]

\* the loop over missing_queries.zip(fetched_balances): Ok balances are
\* inserted, an Err is skipped
InsertFetched(new_balances, missing_queries, fetched_balances) ==
  [q \in DOMAIN new_balances \cup {m \in missing_queries : fetched_balances[m].ok} |->
     IF q \in missing_queries THEN fetched_balances[q].val ELSE new_balances[q]]

\* available_balance left as the order store gave it
WithAvailableBalanceUnset(orders, new_balances) == orders

\* the balance written over the sell amount as well
WithAvailableBalanceAsSellAmount(orders, new_balances) ==
  [i \in DOMAIN orders |->
     [orders[i] EXCEPT !.available_balance = Get(new_balances, QueryFromOrder(orders[i])),
                       !.sell_amount = Get(new_balances, QueryFromOrder(orders[i])).val]]

\* order.metadata.available_balance = new_balances.get(&query).copied()
WithAvailableBalance(orders, new_balances) ==
  [i \in DOMAIN orders |->
     [orders[i] EXCEPT !.available_balance = Get(new_balances, QueryFromOrder(orders[i]))]]

\* the tokens get_orders_with_native_prices asks prices for
TradedTokens(orders) ==
  {orders[i].sell_token : i \in DOMAIN orders} \cup
  {orders[i].buy_token : i \in DOMAIN orders}

(***************************************************************************)
(* to_normalized_price.  A raw f64 price is [class, num], the value        *)
(* num / PriceDen when class = "finite"; 1e18 is PriceScale.               *)
(***************************************************************************)
\* stands for the factor 1e18
PriceScale == 4
\* raw prices are multiples of 1 / PriceDen
PriceDen == 8

\* to_normalized_price accepting every positive product
ToNormalizedPriceAnyPositive(price) ==
  IF /\ price.class = "finite"
     /\ PriceScale * price.num > 0
     /\ PriceScale * price.num < (U256Max + 1) * PriceDen
  THEN Some((PriceScale * price.num) \div PriceDen)
  ELSE None

ToNormalizedPrice(price) ==
  IF /\ price.class = "finite"
     /\ PriceScale * price.num >= PriceDen
     /\ PriceScale * price.num < (U256Max + 1) * PriceDen
  THEN Some((PriceScale * price.num) \div PriceDen)
  ELSE None

Finite(num) == [class |-> "finite", num |-> num]
Infinite == [class |-> "infinite", num |-> 0]
NaN == [class |-> "nan", num |-> 0]
OkPrice(price) == [ok |-> TRUE, val |-> price]
ErrPrice == [ok |-> FALSE, val |-> Finite(0)]

\* an order kept when one of its tokens has a price
HasPricesEither(order, prices) ==
  order.sell_token \in DOMAIN prices \/ order.buy_token \in DOMAIN prices

\* orders.retain(...) of get_orders_with_native_prices
HasPrices(order, prices) ==
  order.sell_token \in DOMAIN prices /\ order.buy_token \in DOMAIN prices

RetainPriced(orders, prices) == SelectSeq(orders, LAMBDA order : HasPrices(order, prices))

\* every collected price returned, used by an order or not
UsedPricesUnpruned(orders, prices) == prices

\* used_prices: the prices of the tokens of the retained orders
UsedPrices(orders, prices) == Restrict(prices, TradedTokens(RetainPriced(orders, prices)))

(***************************************************************************)
(* State.                                                                  *)
(***************************************************************************)
VARIABLES
  fn_pc,           \* "input" before, "done" after the call of the function under check
  in_orders,       \* argument `orders` of solvable_orders
  in_balances,     \* argument `balances` of solvable_orders
  out_orders,      \* the returned Vec<Order>
  env,             \* what the collaborators of this run can answer (never changes)
  cache,           \* SolvableOrdersCache.cache: the Inner behind the Mutex
  lock,            \* who holds the Mutex: "free", an updater or "reader"
  permit,          \* SolvableOrdersCache.notify holds a stored permit
  waiter_notified, \* the loop's pending Notified future has been notified
  strong,          \* number of strong references to the cache outside update_task
  current_block,   \* CurrentBlockStream: current_block.borrow().number
  now,             \* Instant::now()
  upd,             \* per updater: its place in update_task / update and its locals
  rd,              \* a reader: its place in a cached_* call, what it returned, and
                   \* the numbers of the publications it read from (history)
  metrics,         \* AuctionMetrics: the auction_updated call of the cycle not yet published
  wait_calls,      \* request_update calls made during the current Waiting (history)
  permit_src,      \* where the loop was when the stored permit was left (history)
  req_pending,     \* a request_update call no load has started after (history)
  dropped_at       \* where the loop was when the last reference was dropped (history)

fnVars == <<fn_pc, in_orders, in_balances, out_orders>>
notifyVars == <<permit, waiter_notified, wait_calls, permit_src, req_pending>>
refVars == <<strong, dropped_at>>
sysVars == <<env, cache, lock, permit, waiter_notified, strong, current_block, now,
             upd, rd, metrics, wait_calls, permit_src, req_pending, dropped_at>>
vars == <<fn_pc, in_orders, in_balances, out_orders, env, cache, lock, permit,
          waiter_notified, strong, current_block, now, upd, rd, metrics, wait_calls,
          permit_src, req_pending, dropped_at>>

\* the clock stops at MaxTime
MaxTime == 2
\* where readers run, publications are numbered modulo MaxGen + 1 (history only)
MaxGen == 2
\* request_update calls during one Waiting are counted up to MaxWaitCalls
MaxWaitCalls == 2

(***************************************************************************)
(* SolvableOrdersCache::new                                                *)
(***************************************************************************)
NoMetrics == [solvable_orders |-> 0, filtered_orders |-> 0, errored_estimates |-> 0,
              timeout |-> FALSE]

\* the locals of an updater that is at `pc`, outside update
Local0(pc) ==
  [pc |-> pc, block |-> 0, latest_settlement_block |-> 0, orders |-> <<>>,
   new_balances |-> EmptyMap, missing_queries |-> {}, pending |-> {},
   prices |-> EmptyMap, errored_estimates |-> 0, update_time |-> 0,
   metrics_called |-> FALSE, result |-> "none",
   \* history: the block and balances of the cache as read for old_balances,
   \* and whether an execution of update by this caller overlapped another
   old_block |-> 0, old_cached |-> EmptyMap, overlapped |-> FALSE,
   \* history: the queries get_balances answered with an error in this cycle,
   \* and the queries of the orders new_balances was given
   failed |-> {}, queries |-> {},
   \* history: the items the price stream has yielded, by token
   answers |-> EmptyMap,
   \* history: the orders the order store answered with in this cycle
   loaded |-> <<>>]

\* a cache created at block 1 instead of block 0
NewInnerBlockOne(time) ==
  [orders |-> [orders |-> <<>>, update_time |-> time, latest_settlement_block |-> 0,
               block |-> 1],
   balances |-> EmptyMap,
   auction |-> [block |-> 1, latest_settlement_block |-> 0, orders |-> <<>>,
                prices |-> EmptyMap],
   gen |-> [orders |-> 0, balances |-> 0, auction |-> 0]]

\* Inner as built by new(): no orders, no balances, an empty auction
NewInner(time) ==
  [orders |-> [orders |-> <<>>, update_time |-> time, latest_settlement_block |-> 0,
               block |-> 0],
   balances |-> EmptyMap,
   auction |-> [block |-> 0, latest_settlement_block |-> 0, orders |-> <<>>,
                prices |-> EmptyMap],
   gen |-> [orders |-> 0, balances |-> 0, auction |-> 0]]

InitFn ==
  /\ fn_pc = "off"
  /\ in_orders = <<>>
  /\ in_balances = EmptyMap
  /\ out_orders = <<>>

InitCacheFor(e, blocks0, updaters) ==
  /\ env = e
  /\ now = 0
  /\ cache = NewInner(0)
  /\ lock = "free"
  /\ permit = FALSE
  /\ waiter_notified = FALSE
  /\ strong = 1
  /\ current_block \in blocks0
  /\ upd = [u \in updaters |-> Local0(IF u = "task" THEN "top" ELSE "idle")]
  /\ rd = [pc |-> "idle", op |-> "none", key |-> <<>>, ret |-> <<>>, gens |-> {}]
  /\ metrics = [last |-> NoMetrics, unpublished |-> 0]
  /\ wait_calls = 0
  /\ permit_src = "none"
  /\ req_pending = FALSE
  /\ dropped_at = "none"

\* the cache with the spawned task as the only caller of update
InitCache(e, blocks0) == InitCacheFor(e, blocks0, {"task"})

(***************************************************************************)
(* update_task                                                             *)
(***************************************************************************)
Set(u, locals) == upd' = [upd EXCEPT ![u] = locals]

\* the task keeping its strong handle over the iterations: after update it
\* waits again without an upgrade
ReturnToWait(u, result) ==
  Set(u, [Local0(IF u = "task" THEN "waiting" ELSE "idle") EXCEPT
            !.result = result, !.overlapped = upd[u].overlapped])

\* update returns to its caller: update_task logs and loops
Return(u, result) ==
  Set(u, [Local0(IF u = "task" THEN "top" ELSE "idle") EXCEPT
            !.result = result, !.overlapped = upd[u].overlapped])

\* u is executing update
InFlight(u) ==
  upd[u].pc \in {"load", "detect", "lock_old", "read_old", "get_balances", "prices",
                 "lock_publish", "write", "written"}

\* update(block) is entered by u: its locals at the first await
Enter(u, block) ==
  Set(u, [Local0("load") EXCEPT
            !.block = block,
            !.overlapped = upd[u].overlapped \/ \E v \in DOMAIN upd \ {u} : InFlight(v)])

\* the task giving up after a cycle that failed
TaskExitAfterFailure ==
  /\ upd["task"].pc = "top"
  /\ strong = 0 \/ upd["task"].result = "err"
  /\ Set("task", [upd["task"] EXCEPT !.pc = "exited"])
  /\ UNCHANGED <<fnVars, env, cache, lock, notifyVars, refVars, current_block, now, rd,
                 metrics>>

\* cache.upgrade() fails: the task exits
TaskExit ==
  /\ upd["task"].pc = "top"
  /\ strong = 0
  /\ Set("task", [upd["task"] EXCEPT !.pc = "exited"])
  /\ UNCHANGED <<fnVars, env, cache, lock, notifyVars, refVars, current_block, now, rd,
                 metrics>>

\* the task holding an Arc instead of a Weak: upgrade() cannot fail
TaskUpgradeStrong ==
  /\ upd["task"].pc = "top"
  /\ IF permit
     THEN /\ permit' = FALSE
          /\ permit_src' = "none"
          /\ Set("task", [upd["task"] EXCEPT !.pc = "woken"])
     ELSE /\ Set("task", [upd["task"] EXCEPT !.pc = "waiting"])
          /\ UNCHANGED <<permit, permit_src>>
  /\ wait_calls' = 0
  /\ UNCHANGED <<fnVars, env, cache, lock, waiter_notified, req_pending, refVars,
                 current_block, now, rd, metrics>>

\* cache.upgrade() succeeds and select(timeout, notified) is polled: a stored
\* permit completes `notified` at once, otherwise the task waits
TaskUpgrade ==
  /\ upd["task"].pc = "top"
  /\ strong > 0
  /\ IF permit
     THEN /\ permit' = FALSE
          /\ permit_src' = "none"
          /\ Set("task", [upd["task"] EXCEPT !.pc = "woken"])
     ELSE /\ Set("task", [upd["task"] EXCEPT !.pc = "waiting"])
          /\ UNCHANGED <<permit, permit_src>>
  /\ wait_calls' = 0
  /\ UNCHANGED <<fnVars, env, cache, lock, waiter_notified, req_pending, refVars,
                 current_block, now, rd, metrics>>

\* select returns because `notified` completed
TaskWakeNotified ==
  /\ upd["task"].pc = "waiting"
  /\ waiter_notified
  /\ waiter_notified' = FALSE
  /\ Set("task", [upd["task"] EXCEPT !.pc = "woken"])
  /\ UNCHANGED <<fnVars, env, cache, lock, permit, wait_calls, permit_src, req_pending,
                 refVars, current_block, now, rd, metrics>>

\* a select without the sleep: only a notification ends the wait
TaskWakeTimeoutNeedsNotification ==
  /\ upd["task"].pc = "waiting"
  /\ waiter_notified
  /\ waiter_notified' = FALSE
  /\ Set("task", [upd["task"] EXCEPT !.pc = "woken"])
  /\ UNCHANGED <<fnVars, env, cache, lock, permit, wait_calls, permit_src, req_pending,
                 refVars, current_block, now, rd, metrics>>

\* select returns because UPDATE_INTERVAL elapsed; a Notified future dropped
\* after it was notified hands the notification back to the Notify
TaskWakeTimeout ==
  /\ upd["task"].pc = "waiting"
  /\ IF waiter_notified
     THEN permit' = TRUE /\ permit_src' = "waiting"
     ELSE UNCHANGED <<permit, permit_src>>
  /\ waiter_notified' = FALSE
  /\ Set("task", [upd["task"] EXCEPT !.pc = "woken"])
  /\ UNCHANGED <<fnVars, env, cache, lock, wait_calls, req_pending, refVars,
                 current_block, now, rd, metrics>>

\* a block number that is None taken as block 0
TaskNoBlockUpdatesAtZero ==
  /\ upd["task"].pc = "woken"
  /\ ~current_block.some
  /\ Enter("task", 0)
  /\ UNCHANGED <<fnVars, env, cache, lock, notifyVars, refVars, current_block, now, rd,
                 metrics>>

\* current_block.borrow().number is None: log and continue
TaskNoBlock ==
  /\ upd["task"].pc = "woken"
  /\ ~current_block.some
  /\ Set("task", [upd["task"] EXCEPT !.pc = "top"])
  /\ UNCHANGED <<fnVars, env, cache, lock, notifyVars, refVars, current_block, now, rd,
                 metrics>>

\* the block is known: cache.update(block) starts and awaits the order store
TaskUpdate ==
  /\ upd["task"].pc = "woken"
  /\ current_block.some
  /\ Enter("task", current_block.val)
  /\ req_pending' = FALSE
  /\ UNCHANGED <<fnVars, env, cache, lock, permit, waiter_notified, wait_calls,
                 permit_src, refVars, current_block, now, rd, metrics>>

(***************************************************************************)
(* SolvableOrdersCache::update, one action per await or critical section   *)
(***************************************************************************)
\* an error of the order store taken for an empty answer and published
UpdateLoadErrClears(u) ==
  /\ upd[u].pc = "load"
  /\ \E r \in env.db_results : ~r.ok
  /\ Return(u, "err")
  /\ cache' = NewInner(now)
  /\ UNCHANGED <<fnVars, env, lock, notifyVars, refVars, current_block, now, rd,
                 metrics>>

\* database.solvable_orders fails: `?` returns the error
UpdateLoadErr(u) ==
  /\ upd[u].pc = "load"
  /\ \E r \in env.db_results : ~r.ok
  /\ Return(u, "err")
  /\ UNCHANGED <<fnVars, env, cache, lock, notifyVars, refVars, current_block, now, rd,
                 metrics>>

\* database.solvable_orders answers; filter_banned_user_orders; the bad token
\* detector is asked
UpdateLoadOk(u) ==
  /\ upd[u].pc = "load"
  /\ \E r \in env.db_results :
       /\ r.ok
       /\ Set(u, [upd[u] EXCEPT
                    !.pc = "detect",
                    !.latest_settlement_block = r.latest_settlement_block,
                    !.orders = FilterBannedUserOrders(r.orders, env.banned_users),
                    !.loaded = r.orders])
  /\ UNCHANGED <<fnVars, env, cache, lock, notifyVars, refVars, current_block, now, rd,
                 metrics>>

\* filter_unsupported_tokens fails: `?` returns the error
UpdateDetectErr(u) ==
  /\ upd[u].pc = "detect"
  /\ \E d \in env.bad_token_results : ~d.ok
  /\ Return(u, "err")
  /\ UNCHANGED <<fnVars, env, cache, lock, notifyVars, refVars, current_block, now, rd,
                 metrics>>

\* filter_unsupported_tokens answers
UpdateDetectOk(u) ==
  /\ upd[u].pc = "detect"
  /\ \E d \in env.bad_token_results :
       /\ d.ok
       /\ Set(u, [upd[u] EXCEPT
                    !.pc = "lock_old",
                    !.orders = FilterUnsupportedTokens(upd[u].orders, d.bad)])
  /\ UNCHANGED <<fnVars, env, cache, lock, notifyVars, refVars, current_block, now, rd,
                 metrics>>

\* let inner = self.cache.lock().unwrap()
UpdateLockOld(u) ==
  /\ upd[u].pc = "lock_old"
  /\ lock = "free"
  /\ lock' = u
  /\ Set(u, [upd[u] EXCEPT !.pc = "read_old"])
  /\ UNCHANGED <<fnVars, env, cache, notifyVars, refVars, current_block, now, rd,
                 metrics>>

\* the old balances, taken whatever the block
OldBalancesAnyBlock(u) == cache.balances

\* old_balances: the cached balances if the cached block is this block
OldBalances(u) ==
  IF cache.orders.block = upd[u].block THEN cache.balances ELSE EmptyMap

\* old_balances moved out of the cache (mem::take) instead of cloned
UpdateReadOldTakes(u) ==
  /\ upd[u].pc = "read_old"
  /\ lock = u
  /\ lock' = "free"
  /\ cache' = [cache EXCEPT !.balances = EmptyMap]
  /\ LET nb == NewBalances(OldBalances(u), upd[u].orders)
     IN  Set(u, [upd[u] EXCEPT
                   !.pc = "get_balances",
                   !.new_balances = nb.new_balances,
                   !.missing_queries = nb.missing_queries,
                   !.old_block = cache.orders.block,
                   !.old_cached = cache.balances,
                   !.queries = KeysOf(upd[u].orders)])
  /\ UNCHANGED <<fnVars, env, notifyVars, refVars, current_block, now, rd, metrics>>

\* the guard kept over the call of the balance fetcher
UpdateReadOldKeepsLock(u) ==
  /\ upd[u].pc = "read_old"
  /\ lock = u
  /\ LET nb == NewBalances(OldBalances(u), upd[u].orders)
     IN  Set(u, [upd[u] EXCEPT
                   !.pc = "get_balances",
                   !.new_balances = nb.new_balances,
                   !.missing_queries = nb.missing_queries,
                   !.old_block = cache.orders.block,
                   !.old_cached = cache.balances,
                   !.queries = KeysOf(upd[u].orders)])
  /\ UNCHANGED <<fnVars, env, cache, lock, notifyVars, refVars, current_block, now, rd,
                 metrics>>

\* old_balances is read and the guard dropped; new_balances; the balance
\* fetcher is asked for the missing queries
UpdateReadOld(u) ==
  /\ upd[u].pc = "read_old"
  /\ lock = u
  /\ lock' = "free"
  /\ LET nb == NewBalances(OldBalances(u), upd[u].orders)
     IN  Set(u, [upd[u] EXCEPT
                   !.pc = "get_balances",
                   !.new_balances = nb.new_balances,
                   !.missing_queries = nb.missing_queries,
                   !.old_block = cache.orders.block,
                   !.old_cached = cache.balances,
                   !.queries = KeysOf(upd[u].orders)])
  /\ UNCHANGED <<fnVars, env, cache, notifyVars, refVars, current_block, now, rd,
                 metrics>>

\* an error of the balance fetcher returned with `?`
UpdateGetBalancesFailsOnErr(u) ==
  /\ upd[u].pc = "get_balances"
  /\ \E fetched_balances \in [upd[u].missing_queries -> env.balance_results] :
       IF \E m \in upd[u].missing_queries : ~fetched_balances[m].ok
       THEN Return(u, "err")
       ELSE LET nb == InsertFetched(upd[u].new_balances, upd[u].missing_queries,
                                    fetched_balances)
            IN  \E key_order \in KeyOrders(KeysOf(upd[u].orders)) :
                  LET orders == WithAvailableBalance(
                                  SolvableOrders(upd[u].orders, nb, key_order), nb)
                  IN  Set(u, [upd[u] EXCEPT
                                !.pc = "prices",
                                !.new_balances = nb,
                                !.missing_queries = {},
                                !.orders = orders,
                                !.pending = TradedTokens(orders)])
  /\ UNCHANGED <<fnVars, env, cache, lock, notifyVars, refVars, current_block, now, rd,
                 metrics>>

\* get_balances answers, one result per missing query; the fetched balances
\* are inserted; solvable_orders; available_balance; the price stream is opened
UpdateGetBalances(u) ==
  /\ upd[u].pc = "get_balances"
  /\ \E fetched_balances \in [upd[u].missing_queries -> env.balance_results] :
       LET nb == InsertFetched(upd[u].new_balances, upd[u].missing_queries,
                               fetched_balances)
       IN  \E key_order \in KeyOrders(KeysOf(upd[u].orders)) :
             LET orders == WithAvailableBalance(
                             SolvableOrders(upd[u].orders, nb, key_order), nb)
             IN  Set(u, [upd[u] EXCEPT
                           !.pc = "prices",
                           !.new_balances = nb,
                           !.missing_queries = {},
                           !.failed = {m \in upd[u].missing_queries :
                                         ~fetched_balances[m].ok},
                           !.orders = orders,
                           !.pending = TradedTokens(orders)])
  /\ UNCHANGED <<fnVars, env, cache, lock, notifyVars, refVars, current_block, now, rd,
                 metrics>>

\* the first error result ending the collection: what the stream yields
\* after it is dropped
UpdatePriceItemStopsAtError(u) ==
  /\ upd[u].pc = "prices"
  /\ \E token \in upd[u].pending, result \in env.price_results :
       LET price == IF result.ok /\ upd[u].errored_estimates = 0
                    THEN ToNormalizedPrice(result.val) ELSE None
       IN  Set(u, [upd[u] EXCEPT
                     !.pending = @ \ {token},
                     !.answers = Put(@, token, result),
                     !.errored_estimates = IF result.ok THEN @ ELSE @ + 1,
                     !.prices = IF price.some THEN Put(@, token, price.val) ELSE @])
  /\ UNCHANGED <<fnVars, env, cache, lock, notifyVars, refVars, current_block, now, rd,
                 metrics>>

\* errored_estimates counting the prices that do not normalise as well
UpdatePriceItemCountsInvalid(u) ==
  /\ upd[u].pc = "prices"
  /\ \E token \in upd[u].pending, result \in env.price_results :
       LET price == IF result.ok THEN ToNormalizedPrice(result.val) ELSE None
       IN  Set(u, [upd[u] EXCEPT
                     !.pending = @ \ {token},
                     !.answers = Put(@, token, result),
                     !.errored_estimates = IF price.some THEN @ ELSE @ + 1,
                     !.prices = IF price.some THEN Put(@, token, price.val) ELSE @])
  /\ UNCHANGED <<fnVars, env, cache, lock, notifyVars, refVars, current_block, now, rd,
                 metrics>>

\* get_balances answers with fewer results than missing queries: zip stops at
\* the shorter side, so the queries at the end of missing_queries, which is in
\* the order of a HashSet, get no balance
UpdateGetBalancesShort(u) ==
  /\ upd[u].pc = "get_balances"
  /\ \E answered \in SUBSET upd[u].missing_queries :
       /\ answered # upd[u].missing_queries
       /\ \E fetched_balances \in [answered -> env.balance_results] :
            LET nb == InsertFetched(upd[u].new_balances, answered, fetched_balances)
            IN  \E key_order \in KeyOrders(KeysOf(upd[u].orders)) :
                  LET orders == WithAvailableBalance(
                                  SolvableOrders(upd[u].orders, nb, key_order), nb)
                  IN  Set(u, [upd[u] EXCEPT
                                !.pc = "prices",
                                !.new_balances = nb,
                                !.missing_queries = {},
                                !.failed = {m \in answered : ~fetched_balances[m].ok},
                                !.orders = orders,
                                !.pending = TradedTokens(orders)])
  /\ UNCHANGED <<fnVars, env, cache, lock, notifyVars, refVars, current_block, now, rd,
                 metrics>>

\* price_stream.next() yields (index, result) for a token not yet answered
UpdatePriceItem(u) ==
  /\ upd[u].pc = "prices"
  /\ \E token \in upd[u].pending, result \in env.price_results :
       LET price == IF result.ok THEN ToNormalizedPrice(result.val) ELSE None
       IN  Set(u, [upd[u] EXCEPT
                     !.pending = @ \ {token},
                     !.answers = Put(@, token, result),
                     !.errored_estimates = IF result.ok THEN @ ELSE @ + 1,
                     !.prices = IF price.some THEN Put(@, token, price.val) ELSE @])
  /\ UNCHANGED <<fnVars, env, cache, lock, notifyVars, refVars, current_block, now, rd,
                 metrics>>

\* the sink called in the timeout branch and again at the end
AfterPricesTimeoutReportedTwice(u, timeout) ==
  LET orders == RetainPriced(upd[u].orders, upd[u].prices)
  IN  /\ metrics' = [last |-> [solvable_orders |-> Len(orders),
                               filtered_orders |-> Len(upd[u].orders) - Len(orders),
                               errored_estimates |-> upd[u].errored_estimates,
                               timeout |-> timeout],
                     unpublished |-> metrics.unpublished + (IF timeout THEN 2 ELSE 1)]
      /\ Set(u, [upd[u] EXCEPT
                   !.pc = "lock_publish",
                   !.orders = orders,
                   !.prices = UsedPrices(upd[u].orders, upd[u].prices),
                   !.pending = {},
                   !.answers = EmptyMap,
                   !.errored_estimates = 0,
                   !.metrics_called = TRUE,
                   !.update_time = now])

\* the rest of get_orders_with_native_prices and the value assigned to the
\* cache: orders and prices are filtered, the metrics are reported, the auction
\* is built and Instant::now() is read
AfterPrices(u, timeout) ==
  LET orders == RetainPriced(upd[u].orders, upd[u].prices)
  IN  /\ metrics' = [last |-> [solvable_orders |-> Len(orders),
                               filtered_orders |-> Len(upd[u].orders) - Len(orders),
                               errored_estimates |-> upd[u].errored_estimates,
                               timeout |-> timeout],
                     unpublished |-> metrics.unpublished + 1]
      /\ Set(u, [upd[u] EXCEPT
                   !.pc = "lock_publish",
                   !.orders = orders,
                   !.prices = UsedPrices(upd[u].orders, upd[u].prices),
                   !.pending = {},
                   !.answers = EmptyMap,
                   !.errored_estimates = 0,
                   !.metrics_called = TRUE,
                   !.update_time = now])

\* price_stream.next() yields None before the deadline
UpdatePricesExhausted(u) ==
  /\ upd[u].pc = "prices"
  /\ upd[u].pending = {}
  /\ AfterPrices(u, FALSE)
  /\ UNCHANGED <<fnVars, env, cache, lock, notifyVars, refVars, current_block, now, rd>>

\* the elapsed deadline reported as timeout = false
UpdatePricesTimeoutAsExhausted(u) ==
  /\ upd[u].pc = "prices"
  /\ AfterPrices(u, FALSE)
  /\ UNCHANGED <<fnVars, env, cache, lock, notifyVars, refVars, current_block, now, rd>>

\* a deadline that is looked at only when the stream has ended
UpdatePricesTimeoutAfterStream(u) ==
  /\ upd[u].pc = "prices"
  /\ upd[u].pending = {}
  /\ AfterPrices(u, TRUE)
  /\ UNCHANGED <<fnVars, env, cache, lock, notifyVars, refVars, current_block, now, rd>>

\* timeout_at(deadline, collect_prices) elapses
UpdatePricesTimeout(u) ==
  /\ upd[u].pc = "prices"
  /\ AfterPrices(u, TRUE)
  /\ UNCHANGED <<fnVars, env, cache, lock, notifyVars, refVars, current_block, now, rd>>

\* self.cache.lock().unwrap() of the assignment
UpdateLockPublish(u) ==
  /\ upd[u].pc = "lock_publish"
  /\ lock = "free"
  /\ lock' = u
  /\ Set(u, [upd[u] EXCEPT !.pc = "write"])
  /\ UNCHANGED <<fnVars, env, cache, notifyVars, refVars, current_block, now, rd,
                 metrics>>

\* the Inner with the block number written where the time belongs
BuiltInnerBlockTime(u) ==
  [orders |-> [orders |-> upd[u].orders, update_time |-> upd[u].block,
               latest_settlement_block |-> upd[u].latest_settlement_block,
               block |-> upd[u].block],
   balances |-> upd[u].new_balances,
   auction |-> [block |-> upd[u].block,
                latest_settlement_block |-> upd[u].latest_settlement_block,
                orders |-> upd[u].orders,
                prices |-> upd[u].prices]]

\* the Inner with the settlement block of the solvable orders left as it was
BuiltInnerKeepsSettlement(u) ==
  [orders |-> [orders |-> upd[u].orders, update_time |-> upd[u].update_time,
               latest_settlement_block |-> cache.orders.latest_settlement_block,
               block |-> upd[u].block],
   balances |-> upd[u].new_balances,
   auction |-> [block |-> upd[u].block,
                latest_settlement_block |-> upd[u].latest_settlement_block,
                orders |-> upd[u].orders,
                prices |-> upd[u].prices]]

\* the Inner that update assigns
BuiltInner(u) ==
  [orders |-> [orders |-> upd[u].orders, update_time |-> upd[u].update_time,
               latest_settlement_block |-> upd[u].latest_settlement_block,
               block |-> upd[u].block],
   balances |-> upd[u].new_balances,
   auction |-> [block |-> upd[u].block,
                latest_settlement_block |-> upd[u].latest_settlement_block,
                orders |-> upd[u].orders,
                prices |-> upd[u].prices]]

\* *guard = Inner { .. }: under the guard the fields of the new Inner replace
\* the old ones, first orders and balances
UpdateWrite(u) ==
  /\ upd[u].pc = "write"
  /\ lock = u
  /\ LET g == (cache.gen.orders + 1) % env.gens
     IN  cache' = [cache EXCEPT !.orders = BuiltInner(u).orders,
                                !.balances = BuiltInner(u).balances,
                                !.gen = [@ EXCEPT !.orders = g, !.balances = g]]
  /\ Set(u, [upd[u] EXCEPT !.pc = "written"])
  /\ UNCHANGED <<fnVars, env, lock, notifyVars, refVars, current_block, now, rd,
                 metrics>>

\* then the auction; the guard is dropped; Ok(())
UpdateWritten(u) ==
  /\ upd[u].pc = "written"
  /\ lock = u
  /\ cache' = [cache EXCEPT !.auction = BuiltInner(u).auction,
                            !.gen = [@ EXCEPT !.auction = cache.gen.orders]]
  /\ lock' = "free"
  /\ metrics' = [last |-> NoMetrics, unpublished |-> metrics.unpublished - 1]
  /\ Return(u, "ok")
  /\ UNCHANGED <<fnVars, env, notifyVars, refVars, current_block, now, rd>>

(***************************************************************************)
(* The public methods, called by other tasks.                              *)
(***************************************************************************)
\* request_update as notify_waiters(): only a waiting loop is notified, no
\* permit is stored
RequestUpdateWaitersOnly ==
  /\ strong > 0
  /\ waiter_notified' = (waiter_notified \/ upd["task"].pc = "waiting")
  /\ wait_calls' = IF upd["task"].pc = "waiting" /\ wait_calls < MaxWaitCalls
                   THEN wait_calls + 1 ELSE wait_calls
  /\ req_pending' = TRUE
  /\ UNCHANGED <<fnVars, env, cache, lock, permit, permit_src, refVars, current_block,
                 now, upd, rd, metrics>>

\* request_update with every call after the first of a Waiting dropped
RequestUpdateCoalescing ==
  /\ strong > 0
  /\ IF upd["task"].pc = "waiting"
     THEN /\ waiter_notified' = TRUE
          /\ UNCHANGED <<permit, permit_src>>
     ELSE /\ permit' = TRUE
          /\ permit_src' = "busy"
          /\ UNCHANGED waiter_notified
  /\ wait_calls' = IF upd["task"].pc = "waiting" /\ wait_calls < MaxWaitCalls
                   THEN wait_calls + 1 ELSE wait_calls
  /\ req_pending' = TRUE
  /\ UNCHANGED <<fnVars, env, cache, lock, refVars, current_block, now, upd, rd,
                 metrics>>

\* request_update: notify.notify_one() notifies the waiting loop, or leaves
\* one permit when no waiter is waiting to be notified
RequestUpdate ==
  /\ strong > 0
  /\ IF upd["task"].pc = "waiting" /\ ~waiter_notified
     THEN /\ waiter_notified' = TRUE
          /\ UNCHANGED <<permit, permit_src>>
     ELSE /\ permit' = TRUE
          /\ permit_src' = IF upd["task"].pc = "waiting" /\ permit_src # "busy"
                           THEN "waiting" ELSE "busy"
          /\ UNCHANGED waiter_notified
  /\ wait_calls' = IF upd["task"].pc = "waiting" /\ wait_calls < MaxWaitCalls
                   THEN wait_calls + 1 ELSE wait_calls
  /\ req_pending' = TRUE
  /\ UNCHANGED <<fnVars, env, cache, lock, refVars, current_block, now, upd, rd,
                 metrics>>

\* another task calls update(block) itself, as the tests do
DirectUpdate ==
  /\ strong > 0
  /\ upd["caller"].pc = "idle"
  /\ \E block \in {b.val : b \in {c \in env.blocks : c.some}} : Enter("caller", block)
  /\ UNCHANGED <<fnVars, env, cache, lock, notifyVars, refVars, current_block, now, rd,
                 metrics>>

ReaderOps == {"cached_balance", "cached_solvable_orders", "cached_auction"}

\* a task calls cached_balance(key), cached_solvable_orders() or cached_auction()
ReaderCall ==
  /\ rd.pc \in {"idle", "returned"}
  /\ strong > 0
  /\ \E op \in ReaderOps, key \in env.queries :
       rd' = [pc |-> "lock", op |-> op,
              key |-> IF op = "cached_balance" THEN key ELSE <<>>,
              ret |-> <<>>, gens |-> {}]
  /\ UNCHANGED <<fnVars, env, cache, lock, notifyVars, refVars, current_block, now, upd,
                 metrics>>

\* self.cache.lock().unwrap()
ReaderLock ==
  /\ rd.pc = "lock"
  /\ lock = "free"
  /\ lock' = "reader"
  /\ rd' = [rd EXCEPT !.pc = "locked"]
  /\ UNCHANGED <<fnVars, env, cache, notifyVars, refVars, current_block, now, upd,
                 metrics>>

\* cached_balance: inner.balances.get(key).copied(); the guard is dropped
ReaderBalance ==
  /\ rd.pc = "locked" /\ rd.op = "cached_balance"
  /\ rd' = [rd EXCEPT !.pc = "returned", !.ret = Get(cache.balances, rd.key),
                      !.gens = {cache.gen.balances}]
  /\ lock' = "free"
  /\ UNCHANGED <<fnVars, env, cache, notifyVars, refVars, current_block, now, upd,
                 metrics>>

\* cached_solvable_orders: orders.clone(); the guard is dropped
ReaderOrders ==
  /\ rd.pc = "locked" /\ rd.op = "cached_solvable_orders"
  /\ rd' = [rd EXCEPT !.pc = "returned", !.ret = cache.orders,
                      !.gens = {cache.gen.orders}]
  /\ lock' = "free"
  /\ UNCHANGED <<fnVars, env, cache, notifyVars, refVars, current_block, now, upd,
                 metrics>>

\* cached_auction with the guard dropped between its two reads
ReaderAuctionUnlocks ==
  /\ rd.pc = "locked" /\ rd.op = "cached_auction"
  /\ rd' = [rd EXCEPT !.pc = "cloned", !.ret = <<cache.auction>>,
                      !.gens = {cache.gen.auction}]
  /\ lock' = "free"
  /\ UNCHANGED <<fnVars, env, cache, notifyVars, refVars, current_block, now, upd,
                 metrics>>

\* cached_auction: cache.auction.clone(), the guard still held
ReaderAuction ==
  /\ rd.pc = "locked" /\ rd.op = "cached_auction"
  /\ rd' = [rd EXCEPT !.pc = "cloned", !.ret = <<cache.auction>>,
                      !.gens = {cache.gen.auction}]
  /\ UNCHANGED <<fnVars, env, cache, lock, notifyVars, refVars, current_block, now, upd,
                 metrics>>

\* cached_auction: cache.orders.update_time; the guard is dropped
ReaderAuctionTime ==
  /\ rd.pc = "cloned"
  /\ rd' = [rd EXCEPT !.pc = "returned",
                      !.ret = <<rd.ret[1], cache.orders.update_time>>,
                      !.gens = rd.gens \cup {cache.gen.orders}]
  /\ lock' = "free"
  /\ UNCHANGED <<fnVars, env, cache, notifyVars, refVars, current_block, now, upd,
                 metrics>>

(***************************************************************************)
(* The environment.                                                        *)
(***************************************************************************)
\* a strong reference to the cache is dropped
DropReference ==
  /\ strong > 0
  /\ rd.pc \in {"idle", "returned"}
  /\ strong' = strong - 1
  /\ dropped_at' = IF strong = 1 THEN upd["task"].pc ELSE dropped_at
  /\ UNCHANGED <<fnVars, env, cache, lock, notifyVars, current_block, now, upd, rd,
                 metrics>>

\* the block stream observes another block (or loses it)
BlockChange ==
  /\ \E b \in env.blocks : b # current_block /\ current_block' = b
  /\ UNCHANGED <<fnVars, env, cache, lock, notifyVars, refVars, now, upd, rd, metrics>>

\* time passes
Tick ==
  /\ now < MaxTime
  /\ now' = now + 1
  /\ UNCHANGED <<fnVars, env, cache, lock, notifyVars, refVars, current_block, upd, rd,
                 metrics>>

(***************************************************************************)
(* SpecAlloc: solvable_orders applied to every input within the bounds.    *)
(***************************************************************************)
\* (sell_amount, fee_amount) of the fill-or-kill orders given to the allocator
AllocAmounts == {<<0, 0>>, <<1, 1>>, <<2, 1>>, <<U256Max, 1>>}

AllocOrder(uid, owner, date, amounts) ==
  MkOrder(uid, owner, 1, 2, amounts[1], 1, amounts[2], "sell", FALSE, 0, 0, date)

\* owner 1 places orders of every amount; owner 2, whose pool shows that the
\* pools do not mix, places orders of one amount
AllocShapes ==
  ({1} \X (0..MaxDate) \X AllocAmounts) \cup ({2} \X (0..MaxDate) \X {<<1, 1>>})

\* the orders of an input: the uid of an order is its position
AllocInput(shapes) ==
  [i \in DOMAIN shapes |-> AllocOrder(i, shapes[i][1], shapes[i][2], shapes[i][3])]

AllocQueries == {<<owner, 1, "erc20">> : owner \in Owners}

\* the pool of owner 2 has a small or a large balance
AllocBalance(balances) ==
  \A q \in DOMAIN balances : q[1] = 2 => balances[q] \in {1, MaxBalance}

NoEnv == [db_results |-> {}, banned_users |-> {}, bad_token_results |-> {},
          balance_results |-> {}, price_results |-> {}, blocks |-> {}, queries |-> {},
          gens |-> 1]

InitAlloc ==
  /\ fn_pc = "input"
  /\ \E n \in 0..MaxOrders : \E shapes \in [1..n -> AllocShapes] :
       in_orders = AllocInput(shapes)
  /\ \E known \in SUBSET AllocQueries : \E balances \in [known -> 0..MaxBalance] :
       AllocBalance(balances) /\ in_balances = balances
  /\ out_orders = <<>>
  /\ InitCache(NoEnv, {None})

CallSolvableOrders ==
  /\ fn_pc = "input"
  /\ \E key_order \in KeyOrders(KeysOf(in_orders)) :
       out_orders' = SolvableOrders(in_orders, in_balances, key_order)
  /\ fn_pc' = "done"
  /\ UNCHANGED <<in_orders, in_balances, sysVars>>

NextAlloc == CallSolvableOrders

SpecAlloc == InitAlloc /\ [][NextAlloc]_vars

(***************************************************************************)
(* The cache with its refresh task, readers and collaborators.             *)
(***************************************************************************)
SysOrder(uid, owner, sell_token, buy_token, sell_amount, fee_amount, date) ==
  MkOrder(uid, owner, sell_token, buy_token, sell_amount, 1, fee_amount, "sell",
          FALSE, 0, 0, date)

\* the orders the order store can hold: two orders of one pool, an order of
\* another pool and an order of a banned owner
Order1 == SysOrder(1, 1, 1, 2, 1, 1, 0)
Order2 == SysOrder(2, 1, 1, 3, 2, 1, 1)
Order3 == SysOrder(3, 2, 2, 3, 1, 1, 0)
Order4 == SysOrder(4, 3, 1, 2, 1, 1, 0)

BannedUsers == {3}

OkDb(orders, latest_settlement_block) ==
  [ok |-> TRUE, orders |-> orders, latest_settlement_block |-> latest_settlement_block]
ErrDb == [ok |-> FALSE, orders |-> <<>>, latest_settlement_block |-> 0]

OkBad(bad) == [ok |-> TRUE, bad |-> bad]
ErrBad == [ok |-> FALSE, bad |-> {}]

QueriesOf(orders) == {QueryFromOrder(o) : o \in orders}

\* all collaborators answer in every way
CycleEnv ==
  [db_results |-> {ErrDb, OkDb(<<>>, 0), OkDb(<<Order1, Order2>>, 0),
                   OkDb(<<Order3, Order4, Order2, Order1>>, 1)},
   banned_users |-> BannedUsers,
   bad_token_results |-> {ErrBad, OkBad({}), OkBad({3})},
   balance_results |-> {Err, Ok(3), Ok(5)},
   price_results |-> {ErrPrice, OkPrice(Finite(0)), OkPrice(Finite(4))},
   blocks |-> {None, Some(0), Some(1)},
   queries |-> QueriesOf({Order1, Order2, Order3, Order4}),
   gens |-> 1]

InitCycle == InitFn /\ InitCache(CycleEnv, {None, Some(0), Some(1)})

\* SpecCycle: refresh cycles one after the other, every collaborator
\* answering in every way; nobody else uses the cache
NextCycle ==
  \/ TaskUpgrade
  \/ TaskWakeTimeout
  \/ TaskNoBlock
  \/ TaskUpdate
  \/ \E u \in DOMAIN upd : UpdateLoadErr(u)
  \/ \E u \in DOMAIN upd : UpdateLoadOk(u)
  \/ \E u \in DOMAIN upd : UpdateDetectErr(u)
  \/ \E u \in DOMAIN upd : UpdateDetectOk(u)
  \/ \E u \in DOMAIN upd : UpdateLockOld(u)
  \/ \E u \in DOMAIN upd : UpdateReadOld(u)
  \/ \E u \in DOMAIN upd : UpdateGetBalances(u)
  \/ \E u \in DOMAIN upd : UpdatePriceItem(u)
  \/ \E u \in DOMAIN upd : UpdatePricesExhausted(u)
  \/ \E u \in DOMAIN upd : UpdatePricesTimeout(u)
  \/ \E u \in DOMAIN upd : UpdateLockPublish(u)
  \/ \E u \in DOMAIN upd : UpdateWrite(u)
  \/ \E u \in DOMAIN upd : UpdateWritten(u)
  \/ BlockChange

SpecCycle == InitCycle /\ [][NextCycle]_vars

\* SpecReaders: refresh cycles while another task reads the cache and time
\* passes; the order store holds one order
ReaderEnv ==
  [db_results |-> {ErrDb, OkDb(<<>>, 0), OkDb(<<Order1>>, 0)},
   banned_users |-> BannedUsers,
   bad_token_results |-> {ErrBad, OkBad({})},
   balance_results |-> {Ok(3)},
   price_results |-> {OkPrice(Finite(4))},
   blocks |-> {Some(1)},
   queries |-> QueriesOf({Order1}),
   gens |-> MaxGen + 1]

InitReaders == InitFn /\ InitCache(ReaderEnv, {Some(1)})

NextReaders ==
  \/ TaskUpgrade
  \/ TaskWakeTimeout
  \/ TaskUpdate
  \/ \E u \in DOMAIN upd : UpdateLoadErr(u)
  \/ \E u \in DOMAIN upd : UpdateLoadOk(u)
  \/ \E u \in DOMAIN upd : UpdateDetectErr(u)
  \/ \E u \in DOMAIN upd : UpdateDetectOk(u)
  \/ \E u \in DOMAIN upd : UpdateLockOld(u)
  \/ \E u \in DOMAIN upd : UpdateReadOld(u)
  \/ \E u \in DOMAIN upd : UpdateGetBalances(u)
  \/ \E u \in DOMAIN upd : UpdatePriceItem(u)
  \/ \E u \in DOMAIN upd : UpdatePricesExhausted(u)
  \/ \E u \in DOMAIN upd : UpdatePricesTimeout(u)
  \/ \E u \in DOMAIN upd : UpdateLockPublish(u)
  \/ \E u \in DOMAIN upd : UpdateWrite(u)
  \/ \E u \in DOMAIN upd : UpdateWritten(u)
  \/ ReaderCall
  \/ ReaderLock
  \/ ReaderBalance
  \/ ReaderOrders
  \/ ReaderAuction
  \/ ReaderAuctionTime
  \/ Tick

SpecReaders == InitReaders /\ [][NextReaders]_vars

\* SpecLoop: update_task with the tasks that request updates and drop their
\* references to the cache, and a block stream that comes and goes
LoopEnv ==
  [db_results |-> {ErrDb, OkDb(<<>>, 0), OkDb(<<Order1>>, 0)},
   banned_users |-> BannedUsers,
   bad_token_results |-> {ErrBad, OkBad({})},
   balance_results |-> {Ok(3)},
   price_results |-> {OkPrice(Finite(4))},
   blocks |-> {None, Some(1)},
   queries |-> QueriesOf({Order1}),
   gens |-> 1]

InitLoop == InitFn /\ InitCache(LoopEnv, {None, Some(1)})

NextLoop ==
  \/ TaskExit
  \/ TaskUpgrade
  \/ TaskWakeNotified
  \/ TaskWakeTimeout
  \/ TaskNoBlock
  \/ TaskUpdate
  \/ \E u \in DOMAIN upd : UpdateLoadErr(u)
  \/ \E u \in DOMAIN upd : UpdateLoadOk(u)
  \/ \E u \in DOMAIN upd : UpdateDetectErr(u)
  \/ \E u \in DOMAIN upd : UpdateDetectOk(u)
  \/ \E u \in DOMAIN upd : UpdateLockOld(u)
  \/ \E u \in DOMAIN upd : UpdateReadOld(u)
  \/ \E u \in DOMAIN upd : UpdateGetBalances(u)
  \/ \E u \in DOMAIN upd : UpdatePriceItem(u)
  \/ \E u \in DOMAIN upd : UpdatePricesExhausted(u)
  \/ \E u \in DOMAIN upd : UpdatePricesTimeout(u)
  \/ \E u \in DOMAIN upd : UpdateLockPublish(u)
  \/ \E u \in DOMAIN upd : UpdateWrite(u)
  \/ \E u \in DOMAIN upd : UpdateWritten(u)
  \/ RequestUpdate
  \/ DropReference
  \/ BlockChange

SpecLoop == InitLoop /\ [][NextLoop]_vars

\* SpecCallers: update_task beside a task that calls update itself, and time;
\* the order store and the bad token detector answer
CallersEnv ==
  [db_results |-> {OkDb(<<Order1>>, 0)},
   banned_users |-> BannedUsers,
   bad_token_results |-> {OkBad({})},
   balance_results |-> {Ok(3), Ok(5)},
   price_results |-> {OkPrice(Finite(4))},
   blocks |-> {Some(0), Some(1)},
   queries |-> QueriesOf({Order1}),
   gens |-> 1]

InitCallers == InitFn /\ InitCacheFor(CallersEnv, {Some(1)}, {"task", "caller"})

NextCallers ==
  \/ TaskUpgrade
  \/ TaskWakeTimeout
  \/ TaskUpdate
  \/ \E u \in DOMAIN upd : UpdateLoadOk(u)
  \/ \E u \in DOMAIN upd : UpdateDetectOk(u)
  \/ \E u \in DOMAIN upd : UpdateLockOld(u)
  \/ \E u \in DOMAIN upd : UpdateReadOld(u)
  \/ \E u \in DOMAIN upd : UpdateGetBalances(u)
  \/ \E u \in DOMAIN upd : UpdatePriceItem(u)
  \/ \E u \in DOMAIN upd : UpdatePricesExhausted(u)
  \/ \E u \in DOMAIN upd : UpdatePricesTimeout(u)
  \/ \E u \in DOMAIN upd : UpdateLockPublish(u)
  \/ \E u \in DOMAIN upd : UpdateWrite(u)
  \/ \E u \in DOMAIN upd : UpdateWritten(u)
  \/ DirectUpdate
  \/ Tick

SpecCallers == InitCallers /\ [][NextCallers]_vars

\* the steps of the spawned task: update_task and the update it awaits
LoopTaskStep ==
  \/ TaskExit
  \/ TaskUpgrade
  \/ TaskWakeNotified
  \/ TaskWakeTimeout
  \/ TaskNoBlock
  \/ TaskUpdate
  \/ UpdateLoadErr("task")
  \/ UpdateLoadOk("task")
  \/ UpdateDetectErr("task")
  \/ UpdateDetectOk("task")
  \/ UpdateLockOld("task")
  \/ UpdateReadOld("task")
  \/ UpdateGetBalances("task")
  \/ UpdatePriceItem("task")
  \/ UpdatePricesExhausted("task")
  \/ UpdatePricesTimeout("task")
  \/ UpdateLockPublish("task")
  \/ UpdateWrite("task")
  \/ UpdateWritten("task")

\* SpecLoopFair: the runtime keeps polling the spawned task, the sleep of
\* UPDATE_INTERVAL elapses, and every collaborator call in progress returns
SpecLoopFair == InitLoop /\ [][NextLoop]_vars /\ WF_vars(LoopTaskStep)

\* the steps the spawned task takes without an answer of a collaborator: the
\* loop, the mutex, and the timers of UPDATE_INTERVAL and of the deadline
LoopOwnStep ==
  \/ TaskExit
  \/ TaskUpgrade
  \/ TaskWakeNotified
  \/ TaskWakeTimeout
  \/ TaskNoBlock
  \/ TaskUpdate
  \/ UpdateLockOld("task")
  \/ UpdateReadOld("task")
  \/ UpdatePricesTimeout("task")
  \/ UpdateLockPublish("task")
  \/ UpdateWrite("task")
  \/ UpdateWritten("task")

\* SpecStall: the runtime keeps polling the spawned task and the timers
\* elapse, but no collaborator has to answer: the order store, the bad token
\* detector, the balance fetcher and the price stream may stay silent
SpecStall == InitLoop /\ [][NextLoop]_vars /\ WF_vars(LoopOwnStep)

\* SpecTick: update_task when request_update is never called: only the sleep
\* of UPDATE_INTERVAL ends a wait; references are dropped and the block stream
\* comes and goes as in SpecLoop, and the task is scheduled as in SpecLoopFair
NextTick ==
  \/ TaskExit
  \/ TaskUpgrade
  \/ TaskWakeTimeout
  \/ TaskNoBlock
  \/ TaskUpdate
  \/ \E u \in DOMAIN upd : UpdateLoadErr(u)
  \/ \E u \in DOMAIN upd : UpdateLoadOk(u)
  \/ \E u \in DOMAIN upd : UpdateDetectErr(u)
  \/ \E u \in DOMAIN upd : UpdateDetectOk(u)
  \/ \E u \in DOMAIN upd : UpdateLockOld(u)
  \/ \E u \in DOMAIN upd : UpdateReadOld(u)
  \/ \E u \in DOMAIN upd : UpdateGetBalances(u)
  \/ \E u \in DOMAIN upd : UpdatePriceItem(u)
  \/ \E u \in DOMAIN upd : UpdatePricesExhausted(u)
  \/ \E u \in DOMAIN upd : UpdatePricesTimeout(u)
  \/ \E u \in DOMAIN upd : UpdateLockPublish(u)
  \/ \E u \in DOMAIN upd : UpdateWrite(u)
  \/ \E u \in DOMAIN upd : UpdateWritten(u)
  \/ DropReference
  \/ BlockChange

SpecTick == InitLoop /\ [][NextTick]_vars /\ WF_vars(LoopTaskStep)

(***************************************************************************)
(* SpecAmounts: solvable_orders on one order of every kind, fill state and *)
(* size of amounts, alone or before an older plain order of its pool.      *)
(***************************************************************************)
\* executed amount of an order that is not, a little, or completely filled
Executed(amount, filled) ==
  IF filled = "all" THEN amount
  ELSE IF filled = "one" /\ amount > 0 THEN 1
  ELSE 0

AmountOrders ==
  {MkOrder(1, 1, 1, 2, sell, buy, fee, kind, partially_fillable,
           Executed(sell, filled), Executed(buy, filled), 1) :
     sell \in {0, 1, 2, U256Max}, buy \in {0, 1, U256Max}, fee \in {0, 1},
     kind \in {"sell", "buy"}, partially_fillable \in BOOLEAN,
     filled \in {"none", "one", "all"}}

\* an older fill-or-kill order of the same pool that needs 2
PlainOrder == MkOrder(2, 1, 1, 2, 1, 1, 1, "sell", FALSE, 0, 0, 0)

InitAmounts ==
  /\ fn_pc = "input"
  /\ \E order \in AmountOrders, rest \in {<<>>, <<PlainOrder>>} :
       in_orders = <<order>> \o rest
  /\ \E balance \in {2, U256Max} :
       in_balances = [q \in {QueryFromOrder(PlainOrder)} |-> balance]
  /\ out_orders = <<>>
  /\ InitCache(NoEnv, {None})

SpecAmounts == InitAmounts /\ [][NextAlloc]_vars

(***************************************************************************)
(* SpecOverflow: refresh cycles over an order store that holds an order    *)
(* whose sell_amount + fee_amount does not fit in a U256.                  *)
(***************************************************************************)
\* newer than Order1 and of its pool
OrderBig == SysOrder(5, 1, 1, 2, U256Max, 2, 1)

OverflowEnv ==
  [db_results |-> {ErrDb, OkDb(<<Order1, OrderBig>>, 0)},
   banned_users |-> BannedUsers,
   bad_token_results |-> {ErrBad, OkBad({})},
   balance_results |-> {Err, Ok(2), Ok(U256Max)},
   price_results |-> {ErrPrice, OkPrice(Finite(4))},
   blocks |-> {None, Some(0)},
   queries |-> QueriesOf({Order1, OrderBig}),
   gens |-> 1]

InitOverflow == InitFn /\ InitCache(OverflowEnv, {None, Some(0)})

SpecOverflow == InitOverflow /\ [][NextCycle]_vars

(***************************************************************************)
(* SpecPrices: refresh cycles with a price estimator that answers with     *)
(* prices at and around the limits of to_normalized_price.                 *)
(***************************************************************************)
\* the smallest raw prices with 1e18 * price >= 1 and with 1e18 * price >= 2^256
MinPriceNum == (PriceDen + PriceScale - 1) \div PriceScale
MaxPriceNum == ((U256Max + 1) * PriceDen + PriceScale - 1) \div PriceScale

\* the raw price 0.5
HalfPriceNum == PriceDen \div 2

RawPrices ==
  {Finite(num) : num \in {-1, 0, MinPriceNum - 1, MinPriceNum, HalfPriceNum,
                          MaxPriceNum - 1, MaxPriceNum}}
  \cup {Infinite, NaN}

PriceEnv ==
  [db_results |-> {ErrDb, OkDb(<<Order1>>, 0)},
   banned_users |-> BannedUsers,
   bad_token_results |-> {ErrBad, OkBad({})},
   balance_results |-> {Ok(3)},
   price_results |-> {ErrPrice} \cup {OkPrice(price) : price \in RawPrices},
   blocks |-> {None, Some(0)},
   queries |-> QueriesOf({Order1}),
   gens |-> 1]

InitPrices == InitFn /\ InitCache(PriceEnv, {None, Some(0)})

SpecPrices == InitPrices /\ [][NextCycle]_vars

(***************************************************************************)
(* SpecStore: refresh cycles over an order store that answers with an      *)
(* order twice.                                                            *)
(***************************************************************************)
StoreEnv ==
  [db_results |-> {ErrDb, OkDb(<<Order1, Order1, Order3>>, 0),
                   OkDb(<<Order4, Order2>>, 1)},
   banned_users |-> BannedUsers,
   bad_token_results |-> {ErrBad, OkBad({}), OkBad({3})},
   balance_results |-> {Err, Ok(3), Ok(5)},
   price_results |-> {ErrPrice, OkPrice(Finite(4))},
   blocks |-> {None, Some(0)},
   queries |-> QueriesOf({Order1, Order2, Order3, Order4}),
   gens |-> 1]

InitStore == InitFn /\ InitCache(StoreEnv, {None, Some(0)})

SpecStore == InitStore /\ [][NextCycle]_vars

(***************************************************************************)
(* SpecShort: refresh cycles with a balance fetcher that may answer with   *)
(* fewer results than queries; a call in progress returns or times out.    *)
(***************************************************************************)
ShortEnv ==
  [db_results |-> {ErrDb, OkDb(<<Order1, Order3>>, 1)},
   banned_users |-> BannedUsers,
   bad_token_results |-> {ErrBad, OkBad({})},
   balance_results |-> {Err, Ok(3)},
   price_results |-> {ErrPrice, OkPrice(Finite(0)), OkPrice(Finite(4))},
   blocks |-> {None, Some(0)},
   queries |-> QueriesOf({Order1, Order3}),
   gens |-> 1]

InitShort == InitFn /\ InitCache(ShortEnv, {None, Some(0)})

NextShort ==
  \/ NextCycle
  \/ \E u \in DOMAIN upd : UpdateGetBalancesShort(u)

\* the steps of an execution of update by u
CycleStep(u) ==
  \/ UpdateLoadErr(u)
  \/ UpdateLoadOk(u)
  \/ UpdateDetectErr(u)
  \/ UpdateDetectOk(u)
  \/ UpdateLockOld(u)
  \/ UpdateReadOld(u)
  \/ UpdateGetBalances(u)
  \/ UpdateGetBalancesShort(u)
  \/ UpdatePriceItem(u)
  \/ UpdatePricesExhausted(u)
  \/ UpdatePricesTimeout(u)
  \/ UpdateLockPublish(u)
  \/ UpdateWrite(u)
  \/ UpdateWritten(u)

SpecShort == InitShort /\ [][NextShort]_vars /\ WF_vars(CycleStep("task"))

(***************************************************************************)
(* Properties of solvable_orders (SpecAlloc).                              *)
(***************************************************************************)
UidsOf(orders) == {orders[i].uid : i \in DOMAIN orders}

RECURSIVE SumNeeded(_)
SumNeeded(orders) ==
  IF orders = <<>> THEN 0
  ELSE MaxTransferOutAmount(Head(orders)).val + SumNeeded(Tail(orders))

\* unbounded-integer total of max_transfer_out_amount over the orders of one pool
PoolTotal(orders, query) == SumNeeded(GroupOf(orders, query))

Admitted(i) == in_orders[i].uid \in UidsOf(out_orders)

\* an order that asks for balance: max_transfer_out_amount is Ok and non-zero
NeedsBalance(order) ==
  MaxTransferOutAmount(order).ok /\ MaxTransferOutAmount(order).val > 0

\* a and b: same known pool, a newer, each affordable alone, not both together
Contend(a, b) ==
  /\ QueryFromOrder(a) = QueryFromOrder(b)
  /\ QueryFromOrder(a) \in DOMAIN in_balances
  /\ a.creation_date > b.creation_date
  /\ MaxTransferOutAmount(a).ok /\ MaxTransferOutAmount(b).ok
  /\ MaxTransferOutAmount(a).val <= in_balances[QueryFromOrder(a)]
  /\ MaxTransferOutAmount(b).val <= in_balances[QueryFromOrder(a)]
  /\ MaxTransferOutAmount(a).val + MaxTransferOutAmount(b).val
       > in_balances[QueryFromOrder(a)]

\* C1: balance conservation - for every pool with a balance, the admitted
\* orders of the pool need in total at most the pool's balance.
C1_BalanceConservation ==
  fn_pc = "done" =>
    \A q \in DOMAIN in_balances : PoolTotal(out_orders, q) <= in_balances[q]

C1_Witness ==
  /\ fn_pc = "done"
  /\ \E i, j \in DOMAIN in_orders :
       /\ Contend(in_orders[i], in_orders[j])
       /\ Admitted(i) /\ ~Admitted(j)

\* C2 as stated: of two contending orders of a pool the newer one is admitted
\* and the older one is not, whatever else the input holds.
C2_RecencyAnyInput ==
  fn_pc = "done" =>
    \A i, j \in DOMAIN in_orders :
      Contend(in_orders[i], in_orders[j]) => Admitted(i) /\ ~Admitted(j)

\* no other order of a's pool that asks for balance is as new as a or newer
NoRivalBefore(i, j) ==
  \A k \in DOMAIN in_orders \ {i, j} :
    ( /\ QueryFromOrder(in_orders[k]) = QueryFromOrder(in_orders[i])
      /\ in_orders[k].creation_date >= in_orders[i].creation_date )
    => ~NeedsBalance(in_orders[k])

\* C2 (amended): of two contending orders of a pool the newer one is admitted
\* and the older one is not, when no other order of the pool that asks for
\* balance is as new as the newer one or newer.
C2_RecencyNoRivalBefore ==
  fn_pc = "done" =>
    \A i, j \in DOMAIN in_orders :
      (Contend(in_orders[i], in_orders[j]) /\ NoRivalBefore(i, j))
        => Admitted(i) /\ ~Admitted(j)

\* the older order comes first in the input, a third order of the pool that
\* is older than the newer one asks for balance, and the newer one still wins
C2_Witness ==
  /\ fn_pc = "done"
  /\ \E i, j \in DOMAIN in_orders :
       /\ j < i
       /\ Contend(in_orders[i], in_orders[j])
       /\ NoRivalBefore(i, j)
       /\ \E k \in DOMAIN in_orders \ {i, j} :
            /\ QueryFromOrder(in_orders[k]) = QueryFromOrder(in_orders[i])
            /\ NeedsBalance(in_orders[k])
       /\ Admitted(i) /\ ~Admitted(j)

\* C3: maximality - every rejected order of a pool with a known balance that
\* asks for balance needs more than what the admitted orders of the pool left.
C3_Maximal ==
  fn_pc = "done" =>
    \A i \in DOMAIN in_orders :
      LET q == QueryFromOrder(in_orders[i])
      IN  (q \in DOMAIN in_balances /\ NeedsBalance(in_orders[i]) /\ ~Admitted(i))
            => MaxTransferOutAmount(in_orders[i]).val
                 > in_balances[q] - PoolTotal(out_orders, q)

\* a newer order is rejected and an older order of the same pool is admitted
C3_Witness ==
  /\ fn_pc = "done"
  /\ \E i, j \in DOMAIN in_orders :
       /\ QueryFromOrder(in_orders[i]) = QueryFromOrder(in_orders[j])
       /\ QueryFromOrder(in_orders[i]) \in DOMAIN in_balances
       /\ in_orders[i].creation_date > in_orders[j].creation_date
       /\ NeedsBalance(in_orders[i]) /\ ~Admitted(i)
       /\ Admitted(j)

\* the input orders in every order
PermutationsOf(orders) ==
  {[i \in DOMAIN orders |-> orders[p[i]]] : p \in Permutations(DOMAIN orders)}

\* the sets of uids solvable_orders can admit
AdmittedSets(orders) ==
  {UidsOf(SolvableOrders(orders, in_balances, key_order)) :
     key_order \in KeyOrders(KeysOf(orders))}

\* the position of the order with this uid
PositionOf(orders, uid) == CHOOSE i \in DOMAIN orders : orders[i].uid = uid

\* orders of one pool with one creation_date are in the same relative order
KeepsTies(perm, orders) ==
  \A i, j \in DOMAIN orders :
    ( /\ i < j
      /\ QueryFromOrder(orders[i]) = QueryFromOrder(orders[j])
      /\ orders[i].creation_date = orders[j].creation_date )
    => PositionOf(perm, orders[i].uid) < PositionOf(perm, orders[j].uid)

\* C4 as stated: every permutation of the input admits the set admitted for
\* the input in ascending uid order (in_orders is in ascending uid order).
C4_SameForEveryPermutation ==
  fn_pc = "done" =>
    \A perm \in PermutationsOf(in_orders) :
      AdmittedSets(perm) = {UidsOf(out_orders)}

\* C4, what the code does instead: orders of a pool with equal creation_date
\* are considered in input order; every permutation of the input that keeps the relative order
\* of such orders admits the same set.
C4_SameForTiePreservingPermutation ==
  fn_pc = "done" =>
    \A perm \in PermutationsOf(in_orders) :
      KeepsTies(perm, in_orders) => AdmittedSets(perm) = {UidsOf(out_orders)}

\* two orders of one pool with the same creation_date contend, and the one
\* that comes first in the input is admitted
C4_Witness ==
  /\ fn_pc = "done"
  /\ \E i, j \in DOMAIN in_orders :
       /\ i < j
       /\ QueryFromOrder(in_orders[i]) = QueryFromOrder(in_orders[j])
       /\ QueryFromOrder(in_orders[i]) \in DOMAIN in_balances
       /\ in_orders[i].creation_date = in_orders[j].creation_date
       /\ NeedsBalance(in_orders[i]) /\ NeedsBalance(in_orders[j])
       /\ Admitted(i) /\ ~Admitted(j)
       /\ MaxTransferOutAmount(in_orders[j]).val <= in_balances[QueryFromOrder(in_orders[i])]
  /\ \E perm \in PermutationsOf(in_orders) :
       perm # in_orders /\ KeepsTies(perm, in_orders)

(***************************************************************************)
(* Properties of the cache.                                                *)
(***************************************************************************)
SeqToSet(seq) == {seq[i] : i \in DOMAIN seq}

\* C5: snapshot self-consistency - both tokens of every order of the published
\* auction have a price, and every priced token is traded by a published order.
C5_SnapshotSelfConsistent ==
  /\ \A order \in SeqToSet(cache.auction.orders) :
       order.sell_token \in DOMAIN cache.auction.prices /\
       order.buy_token \in DOMAIN cache.auction.prices
  /\ \A token \in DOMAIN cache.auction.prices :
       \E order \in SeqToSet(cache.auction.orders) :
         token = order.sell_token \/ token = order.buy_token

\* both pools have a balance, so each has an admitted order, and the price
\* filter let only one order into the auction
C5_Witness ==
  /\ Cardinality(DOMAIN cache.balances) = 2
  /\ Len(cache.auction.orders) = 1

\* the cycle of u has chosen its old balances and not yet published
InCycleAfterOld(u) ==
  upd[u].pc \in {"get_balances", "prices", "lock_publish", "write"}

\* C6: balance reuse - in a cycle that runs at the block of the published
\* state, no query with a published balance is in the batch for the balance
\* oracle, every such query of a filtered order keeps its balance, and the
\* publication leaves the balances of these queries as they were.
C6_BalanceReuse ==
  /\ [](\A u \in DOMAIN upd :
          (InCycleAfterOld(u) /\ upd[u].block = cache.orders.block) =>
             \A q \in DOMAIN cache.balances :
               /\ q \notin upd[u].missing_queries
               /\ (upd[u].pc = "get_balances" /\ q \in KeysOf(upd[u].orders))
                    => q \in DOMAIN upd[u].new_balances
               /\ q \in DOMAIN upd[u].new_balances
                    => upd[u].new_balances[q] = cache.balances[q])
  /\ [][\A u \in DOMAIN upd :
          (upd[u].pc = "write" /\ upd'[u].pc = "written"
           /\ upd[u].block = cache.orders.block) =>
             \A q \in DOMAIN cache.balances \cap DOMAIN upd[u].new_balances :
               q \in DOMAIN cache'.balances /\ cache'.balances[q] = cache.balances[q]]_vars

\* a cycle at the published block reuses one balance and asks for another
C6_Witness ==
  \E u \in DOMAIN upd :
    /\ upd[u].pc = "get_balances"
    /\ upd[u].block = cache.orders.block
    /\ DOMAIN upd[u].new_balances # {}
    /\ upd[u].missing_queries # {}
    /\ DOMAIN upd[u].new_balances \subseteq DOMAIN cache.balances

\* C7: stale over empty - a cycle that fails at the order store or at the bad
\* token detector returns an error, leaves the published state as it was and
\* has not called the metrics sink.
C7_StaleOverEmpty ==
  [][\A u \in DOMAIN upd :
       ( \/ (upd[u].pc = "load" /\ upd'[u].pc \notin {"load", "detect"})
         \/ (upd[u].pc = "detect" /\ upd'[u].pc \notin {"detect", "lock_old"}) )
       => /\ upd'[u].result = "err"
          /\ cache' = cache
          /\ metrics' = metrics
          /\ ~upd[u].metrics_called /\ metrics.unpublished = 0]_vars

\* a cycle has failed and the orders published before are still there
C7_Witness ==
  /\ upd["task"].result = "err"
  /\ upd["task"].pc = "top"
  /\ cache.orders.orders # <<>>
  /\ cache.auction.orders # <<>>
  /\ DOMAIN cache.balances # {}

\* C8: observable atomicity - whatever a cached_* call returns was read from
\* one publication (for cached_auction: the auction and the update_time), and
\* while the Mutex is free all fields of the cache are of one publication.
C8_AtomicSwap ==
  /\ [](rd.pc = "returned" => Cardinality(rd.gens) = 1)
  /\ [](lock = "free" =>
          cache.gen.orders = cache.gen.auction /\ cache.gen.orders = cache.gen.balances)
  /\ [][(rd.pc # "returned" /\ rd'.pc = "returned") =>
          /\ lock' = "free"
          /\ rd.op = "cached_balance" => rd'.ret = Get(cache'.balances, rd.key)
          /\ rd.op = "cached_solvable_orders" => rd'.ret = cache'.orders
          /\ rd.op = "cached_auction" =>
               rd'.ret = <<cache'.auction, cache'.orders.update_time>>]_vars

\* cached_auction has returned a published auction of a later time than the
\* construction, while the cache already holds the next publication
C8_Witness ==
  /\ rd.pc = "returned" /\ rd.op = "cached_auction"
  /\ rd.ret[1].orders # <<>>
  /\ rd.ret[2] > 0
  /\ rd.gens # {cache.gen.auction}

\* update is suspended on a collaborator
Suspended(u) == upd[u].pc \in {"load", "detect", "get_balances", "prices"}

\* C9: readers never block on a refresh in flight - the Mutex is not held by
\* update while it is suspended on the order store, the bad token detector,
\* the balance fetcher or the price stream, so a reader that wants the lock
\* then gets it.
C9_ReadersNeverBlock ==
  \A u \in DOMAIN upd :
    Suspended(u) =>
      /\ lock # u
      /\ rd.pc = "lock" => ENABLED ReaderLock

\* a reader holds the Mutex while update is suspended on the price stream
C9_Witness ==
  /\ upd["task"].pc = "prices"
  /\ rd.pc = "locked"
  /\ lock = "reader"

\* C10 as stated: the calls made during one Waiting leave nothing behind that
\* ends the following Waiting early.
C10_NoPermitFromWaitingCalls ==
  ~(permit /\ permit_src = "waiting")

\* C10 (amended): the first call made during a Waiting notifies the waiting
\* loop; the calls after it, made before the loop resumes, leave exactly one
\* stored permit, which ends the following Waiting at once.
C10_CoalescedToOnePermit ==
  /\ upd["task"].pc = "waiting" =>
       /\ waiter_notified <=> wait_calls >= 1
       /\ permit <=> wait_calls >= 2
  /\ (permit /\ permit_src = "waiting") => wait_calls >= 1
  /\ waiter_notified => upd["task"].pc = "waiting"

\* two calls were made during this Waiting
C10_Witness ==
  /\ upd["task"].pc = "waiting"
  /\ wait_calls >= 2
  /\ waiter_notified
  /\ permit /\ permit_src = "waiting"

\* C11 as stated: every request is followed by a cycle whose load starts after
\* it; so the task has not exited while a request is still waiting for one.
C11_NoRequestLeftAtExit ==
  upd["task"].pc = "exited" => ~req_pending

\* C11 (amended): a request made while the loop is not waiting leaves the
\* permit; the permit stays until the loop's next select, which it ends at
\* once and which leaves neither a permit nor a notification behind; every
\* request is followed by the start of a load, unless the last reference is
\* dropped or the block stream has no block number.
C11_SingleSlotNeverLost ==
  /\ [][(~req_pending /\ req_pending' /\ upd["task"].pc # "waiting") => permit']_vars
  /\ [][(permit /\ ~permit') =>
          /\ upd["task"].pc = "top" /\ upd'["task"].pc = "woken"
          /\ ~waiter_notified']_vars
  /\ [][(upd["task"].pc = "top" /\ permit /\ upd'["task"].pc # "top") =>
          upd'["task"].pc \in {"woken", "exited"}]_vars
  /\ req_pending ~> (~req_pending \/ strong = 0 \/ ~current_block.some)

\* a request made during a cycle has ended the next select at once and the
\* load after it is about to start
C11_Witness ==
  /\ upd["task"].pc = "woken"
  /\ upd["task"].result # "none"
  /\ req_pending
  /\ ~permit /\ ~waiter_notified
  /\ wait_calls = 0
  /\ strong > 0 /\ current_block.some

\* C12: weak exit - once the last strong reference outside the task is
\* dropped, the task starts no further wait and eventually exits, wherever the
\* loop was at the drop; it exits only then.
C12_WeakExit ==
  /\ (strong = 0) ~> (upd["task"].pc = "exited")
  /\ [][strong = 0 =>
          ~(upd["task"].pc # "waiting" /\ upd'["task"].pc = "waiting")]_vars
  /\ [](upd["task"].pc = "exited" => strong = 0)

\* the last reference was dropped while update awaited the price stream, and
\* the task has exited
C12_Witness ==
  /\ upd["task"].pc = "exited"
  /\ dropped_at = "prices"

\* C13 as stated: after the last reference was dropped while the loop was
\* waiting, the loop runs no cycle any more.
C13_ExitsWithoutCycle ==
  (strong = 0 /\ dropped_at = "waiting") =>
    upd["task"].pc \in {"waiting", "woken", "top", "exited"}

\* C13 (amended): the wake-up does not look at the references: after the
\* wait the loop reads the block number and, if there is one, runs a cycle;
\* the drop is detected by the next upgrade, at the top of the loop, where
\* the task exits without another wait.
C13_DetectedAtNextUpgrade ==
  /\ [][(strong = 0 /\ upd["task"].pc = "woken" /\ upd'["task"].pc # "woken") =>
          upd'["task"].pc = IF current_block.some THEN "load" ELSE "top"]_vars
  /\ [][(strong = 0 /\ upd["task"].pc = "top" /\ upd'["task"].pc # "top") =>
          upd'["task"].pc = "exited"]_vars
  /\ [](upd["task"].pc = "exited" => strong = 0)

\* the references were dropped while the loop was waiting and the loop is
\* publishing a snapshot
C13_Witness ==
  /\ strong = 0
  /\ dropped_at = "waiting"
  /\ upd["task"].pc = "written"

\* C14 as stated: no publication lowers the published update_time.
C14_UpdateTimeNeverDecreases ==
  [][cache'.orders.update_time >= cache.orders.update_time]_vars

\* some execution of update has overlapped another one
Overlapped == \E u \in DOMAIN upd : upd[u].overlapped

\* C14 (amended): as long as no two executions of update have overlapped, no
\* publication lowers the published update_time (the published block may go
\* down).
C14_MonotonicWithoutOverlap ==
  [][~Overlapped' => cache'.orders.update_time >= cache.orders.update_time]_vars

\* without any overlap, a publication of a later time and a lower block has
\* replaced an earlier publication
C14_Witness ==
  /\ ~Overlapped
  /\ cache.orders.update_time > 0
  /\ cache.orders.block = 0
  /\ upd["task"].result = "ok"
  /\ upd["caller"].result = "ok"

\* what u read for old_balances is still what the cache holds
BasisCurrent(u) ==
  /\ cache.orders.block = upd[u].old_block
  /\ cache.balances = upd[u].old_cached

\* C15 as stated: at most one execution of update is in flight, and no
\* execution publishes after the block and balances it started from were
\* replaced.
C15_SingleWriter ==
  /\ Cardinality({u \in DOMAIN upd : InFlight(u)}) <= 1
  /\ \A u \in DOMAIN upd : InCycleAfterOld(u) => BasisCurrent(u)

\* C15 (amended): as long as no two
\* executions of update have overlapped (update is public and another task
\* can call it while the loop does), an execution publishes over the block
\* and balances it started from.
C15_SingleWriterWithoutOverlap ==
  ~Overlapped =>
       /\ Cardinality({u \in DOMAIN upd : InFlight(u)}) <= 1
       /\ \A u \in DOMAIN upd : InCycleAfterOld(u) => BasisCurrent(u)

\* the loop is about to publish over balances that an update called by
\* another task published before the loop's update began
C15_Witness ==
  /\ ~Overlapped
  /\ upd["task"].pc = "write"
  /\ upd["caller"].result = "ok"
  /\ upd["task"].old_cached # EmptyMap
  /\ BasisCurrent("task")

\* the metrics sink has been called and the Inner is not assigned yet
Publishing(u) == upd[u].pc \in {"lock_publish", "write", "written"}

\* C16: auction_updated is called once for each publication and never in a
\* cycle that does not publish - the calls outnumber the publications only
\* by the one call of a cycle that is about to assign the Inner, every call
\* is made at the end of the price stage, and an execution of update returns
\* Ok exactly if it has called the sink.
C16_MetricsOncePerPublication ==
  /\ [](metrics.unpublished = IF Publishing("task") THEN 1 ELSE 0)
  /\ [][metrics.unpublished' > metrics.unpublished =>
          /\ upd["task"].pc = "prices"
          /\ upd'["task"].pc = "lock_publish"
          /\ metrics.unpublished' = metrics.unpublished + 1]_vars
  /\ [][metrics.unpublished' < metrics.unpublished =>
          /\ upd["task"].pc = "written"
          /\ cache'.auction.orders = upd["task"].orders
          /\ metrics.unpublished' = metrics.unpublished - 1]_vars
  /\ [][(InFlight("task") /\ ~InFlight("task")') =>
          (upd'["task"].result = "ok" <=> upd["task"].metrics_called)]_vars

\* a cycle has called the sink and published orders; no call is outstanding
C16_Witness ==
  /\ upd["task"].result = "ok"
  /\ upd["task"].pc = "top"
  /\ metrics.unpublished = 0
  /\ cache.auction.orders # <<>>

\* C17: a timeout of the price stage is not an error - the price stage never
\* returns an error; when it ends with a token unanswered, timeout = true is
\* reported (timeout = false only with every token answered); the orders whose
\* two tokens have prices are kept with these prices; and the cycle publishes
\* them and returns Ok.
C17_TimeoutNotAnError ==
  /\ [][(upd["task"].pc = "prices" /\ upd'["task"].pc # "prices") =>
          /\ upd'["task"].pc = "lock_publish"
          /\ upd["task"].pending # {} => metrics'.last.timeout
          /\ \A i \in DOMAIN upd["task"].orders :
               LET order == upd["task"].orders[i]
               IN  {order.sell_token, order.buy_token} \subseteq DOMAIN upd["task"].prices
                   => /\ \E j \in DOMAIN upd'["task"].orders : upd'["task"].orders[j] = order
                      /\ \A t \in {order.sell_token, order.buy_token} :
                           /\ t \in DOMAIN upd'["task"].prices
                           /\ upd'["task"].prices[t] = upd["task"].prices[t]]_vars
  /\ [][(Publishing("task") /\ ~Publishing("task")') =>
          /\ upd'["task"].result = "ok"
          /\ cache'.auction.orders = upd["task"].orders
          /\ cache'.auction.prices = upd["task"].prices
          /\ cache'.orders.orders = upd["task"].orders]_vars

\* after a timeout that left an order without prices, another order is being
\* published
C17_Witness ==
  /\ upd["task"].pc = "written"
  /\ metrics.last.timeout
  /\ metrics.last.errored_estimates = 0
  /\ metrics.last.solvable_orders > 0
  /\ metrics.last.filtered_orders > 0
  /\ cache.orders.orders = upd["task"].orders

\* out is the elements of seq at the indexes idx, in the order of seq
IsSelection(out, seq, idx) ==
  /\ Len(out) = Cardinality(idx)
  /\ \A j \in idx : out[Cardinality({k \in idx : k <= j})] = seq[j]

\* every sequence of at most MaxOrders of the orders the order store can hold
SysOrders == {Order1, Order2, Order3, Order4}
SysSeqs == UNION {[1..n -> SysOrders] : n \in 0..MaxOrders}

\* filter_banned_user_orders on every such sequence and every set of owners
FilterBannedExact ==
  \A seq \in SysSeqs, banned \in SUBSET {o.owner : o \in SysOrders} :
    IsSelection(FilterBannedUserOrders(seq, banned), seq,
                {j \in DOMAIN seq : seq[j].owner \notin banned})

NoBannedOwner(orders) == \A i \in DOMAIN orders : orders[i].owner \notin env.banned_users

\* C18: banned users - filter_banned_user_orders returns the orders of the
\* input whose owner is not banned, in their order in the input; what update
\* keeps of the answer of the order store is that selection; and no order
\* update works on or has published has a banned owner.
C18_BannedUsersFiltered ==
  /\ FilterBannedExact
  /\ upd["task"].pc = "detect" =>
       \E r \in env.db_results :
         /\ r.ok
         /\ IsSelection(upd["task"].orders, r.orders,
                        {j \in DOMAIN r.orders : r.orders[j].owner \notin env.banned_users})
  /\ NoBannedOwner(upd["task"].orders)
  /\ NoBannedOwner(cache.orders.orders)
  /\ NoBannedOwner(cache.auction.orders)

\* the order store has answered with the order of the banned owner among the
\* others, and the cycle has published orders
C18_Witness ==
  /\ upd["task"].result = "ok"
  /\ cache.orders.latest_settlement_block = 1
  /\ \E r \in env.db_results :
       /\ r.ok /\ r.latest_settlement_block = 1
       /\ \E i \in DOMAIN r.orders : r.orders[i].owner \in env.banned_users
  /\ Len(cache.auction.orders) >= 2

\* the price maps over every set of tokens
PricedSets == SUBSET UNION {{o.sell_token, o.buy_token} : o \in SysOrders}

\* the retain of get_orders_with_native_prices on every sequence and every
\* set of priced tokens
RetainPricedExact ==
  \A seq \in SysSeqs, priced \in PricedSets :
    IsSelection(RetainPriced(seq, [t \in priced |-> 1]), seq,
                {j \in DOMAIN seq : {seq[j].sell_token, seq[j].buy_token} \subseteq priced})

\* C19: price filtering is exact - an order is retained if and only if its
\* sell_token and its buy_token both have a price, the retained orders are in
\* the order of the input, and a token has a price only if it was answered
\* with a price that to_normalized_price accepts: an errored answer adds no
\* price, the price 0 is not accepted, an unanswered token has no price.
C19_PriceFilteringExact ==
  /\ [](RetainPricedExact /\ ToNormalizedPrice(Finite(0)) = None)
  /\ [][(upd["task"].pc = "prices" /\ upd'["task"].pc # "prices") =>
          IsSelection(upd'["task"].orders, upd["task"].orders,
                      {j \in DOMAIN upd["task"].orders :
                         {upd["task"].orders[j].sell_token,
                          upd["task"].orders[j].buy_token}
                           \subseteq DOMAIN upd["task"].prices})]_vars
  /\ [](upd["task"].pc = "prices" =>
          /\ DOMAIN upd["task"].prices \subseteq
               TradedTokens(upd["task"].orders) \ upd["task"].pending
          /\ \A t \in DOMAIN upd["task"].prices :
               \E r \in env.price_results :
                 /\ r.ok
                 /\ r.val.class = "finite"
                 /\ PriceScale * r.val.num >= PriceDen
                 /\ upd["task"].prices[t] = (PriceScale * r.val.num) \div PriceDen)
  /\ [][upd'["task"].errored_estimates > upd["task"].errored_estimates =>
          upd'["task"].prices = upd["task"].prices]_vars

\* the stream is exhausted, an answer was an error, and of the orders one is
\* retained and one is filtered
C19_Witness ==
  /\ upd["task"].pc = "lock_publish"
  /\ ~metrics.last.timeout
  /\ metrics.last.errored_estimates > 0
  /\ metrics.last.solvable_orders > 0
  /\ metrics.last.filtered_orders > 0

\* orders without the available_balance that update sets
Stripped(orders) == [i \in DOMAIN orders |-> [orders[i] EXCEPT !.available_balance = None]]

\* C20: a balance query that fails does not abort the cycle - get_balances
\* answering is followed by the price stage whatever failed; the balances
\* already known are kept; a failed query has no balance and no order of its
\* pool is kept; the orders kept are those solvable_orders admits from the
\* orders of the other pools alone; and the cycle publishes this: the failed
\* query is absent from the published balances, and every published order
\* has a published balance.
C20_BalanceFailureSkipsPool ==
  /\ [][(upd["task"].pc = "get_balances" /\ upd'["task"].pc # "get_balances") =>
          LET old == upd["task"]
              new == upd'["task"]
              others == SelectSeq(old.orders,
                                  LAMBDA o : QueryFromOrder(o) \notin new.failed)
          IN  /\ new.pc = "prices"
              /\ new.failed \subseteq old.missing_queries
              /\ \A q \in DOMAIN old.new_balances :
                   q \in DOMAIN new.new_balances /\ new.new_balances[q] = old.new_balances[q]
              /\ \E key_order \in KeyOrders(KeysOf(others)) :
                   Stripped(new.orders) =
                     Stripped(SolvableOrders(others, new.new_balances, key_order))]_vars
  /\ [](upd["task"].pc \in {"prices", "lock_publish", "write", "written"} =>
          /\ upd["task"].failed \cap DOMAIN upd["task"].new_balances = {}
          /\ \A i \in DOMAIN upd["task"].orders :
               QueryFromOrder(upd["task"].orders[i]) \notin upd["task"].failed)
  /\ [](upd["task"].pc = "written" =>
          /\ cache.balances = upd["task"].new_balances
          /\ cache.orders.orders = upd["task"].orders
          /\ \A q \in upd["task"].failed : Get(cache.balances, q) = None)
  /\ [][(upd["task"].pc = "written" /\ upd'["task"].pc # "written") =>
          upd'["task"].result = "ok"]_vars
  /\ [](\A i \in DOMAIN cache.orders.orders :
          QueryFromOrder(cache.orders.orders[i]) \in DOMAIN cache.balances)

\* a query has failed, its pool had orders, and the cycle has published an
\* order of another pool
C20_Witness ==
  /\ upd["task"].pc = "written"
  /\ upd["task"].failed # {}
  /\ cache.orders.orders # <<>>
  /\ \A q \in upd["task"].failed : q \notin DOMAIN cache.balances

\* sell_amount + fee_amount does not fit in a U256
Overflows(order) == order.sell_amount + order.fee_amount > U256Max

\* C21: arithmetic overflow excludes only the offending order -
\* max_transfer_out_amount of a fill-or-kill order whose sell_amount +
\* fee_amount does not fit is an error; the order is not among the orders
\* solvable_orders keeps; the kept orders are those solvable_orders keeps when
\* the offending order is absent; and the cycle publishes and returns Ok.
C21_OverflowExcludesOnlyTheOrder ==
  /\ [](\A r \in env.db_results : \A i \in DOMAIN r.orders :
          (Overflows(r.orders[i]) /\ ~r.orders[i].partially_fillable)
            => ~MaxTransferOutAmount(r.orders[i]).ok)
  /\ [][(upd["task"].pc = "get_balances" /\ upd'["task"].pc # "get_balances") =>
          LET old == upd["task"]
              new == upd'["task"]
              others == SelectSeq(old.orders, LAMBDA o : ~Overflows(o))
          IN  /\ new.pc = "prices"
              /\ \A i \in DOMAIN new.orders : ~Overflows(new.orders[i])
              /\ \E key_order \in KeyOrders(KeysOf(others)) :
                   Stripped(new.orders) =
                     Stripped(SolvableOrders(others, new.new_balances, key_order))]_vars
  /\ [](\A i \in DOMAIN cache.orders.orders : ~Overflows(cache.orders.orders[i]))
  /\ [][(upd["task"].pc = "prices" /\ upd'["task"].pc # "prices") =>
          upd'["task"].pc = "lock_publish"]_vars
  /\ [][(Publishing("task") /\ ~Publishing("task")') => upd'["task"].result = "ok"]_vars

\* the order store gave the overflowing order, newer, with an order of its
\* pool that needs the whole balance, and that order is published
C21_Witness ==
  /\ upd["task"].pc = "written"
  /\ Len(cache.orders.orders) = 1
  /\ cache.orders.orders[1].uid = Order1.uid
  /\ cache.balances[QueryFromOrder(OrderBig)] = MaxTransferOutAmount(Order1).val

\* nothing of the order remains to be transferred
ZeroRemaining(order) ==
  \/ ~order.partially_fillable /\ order.sell_amount = 0 /\ order.fee_amount = 0
  \/ /\ order.partially_fillable
     /\ IF order.kind = "buy"
        THEN order.buy_amount > 0 /\ order.executed_buy_amount = order.buy_amount
        ELSE order.sell_amount > 0 /\ order.executed_sell_amount = order.sell_amount

\* C22: zero-remaining orders are never admitted - max_transfer_out_amount is
\* 0 for a fill-or-kill order with zero amounts and for a completely filled
\* partially fillable order; an order whose max_transfer_out_amount is 0, and
\* any order with zero amounts, is not admitted whatever the balance; and the
\* admitted orders are those admitted when these orders are absent.
C22_ZeroRemainingNeverAdmitted ==
  fn_pc = "done" =>
    LET zero(o) == \/ ZeroRemaining(o)
                   \/ MaxTransferOutAmount(o) = Ok(0)
                   \/ o.sell_amount = 0 /\ o.fee_amount = 0
    IN  /\ \A i \in DOMAIN in_orders :
             /\ ZeroRemaining(in_orders[i]) => MaxTransferOutAmount(in_orders[i]) = Ok(0)
             /\ zero(in_orders[i]) => ~Admitted(i)
        /\ \E key_order \in KeyOrders(KeysOf(in_orders)) :
             out_orders = SolvableOrders(SelectSeq(in_orders, LAMBDA o : ~zero(o)),
                                         in_balances, key_order)

\* a completely filled partially fillable order is left out although the pool
\* holds the largest balance, and the older order is admitted
C22_Witness ==
  /\ fn_pc = "done"
  /\ Len(in_orders) = 2
  /\ in_orders[1].partially_fillable
  /\ in_orders[1].sell_amount = U256Max
  /\ in_orders[1].executed_sell_amount = U256Max
  /\ in_orders[1].kind = "sell"
  /\ in_balances[QueryFromOrder(in_orders[1])] = U256Max
  /\ ~Admitted(1)
  /\ Admitted(2)

\* C27: for a fill-or-kill order max_transfer_out_amount is sell_amount +
\* fee_amount when the sum fits and an error otherwise, whatever kind,
\* buy_amount and executed amounts are; so the newest order of a pool, when
\* fill-or-kill, is admitted exactly if the sum is not 0 and within the
\* balance.
C27_FillOrKillFullAmount ==
  fn_pc = "done" =>
    /\ \A i \in DOMAIN in_orders :
         ~in_orders[i].partially_fillable =>
           MaxTransferOutAmount(in_orders[i]) =
             IF Overflows(in_orders[i]) THEN Err
             ELSE Ok(in_orders[i].sell_amount + in_orders[i].fee_amount)
    /\ ~in_orders[1].partially_fillable =>
         (Admitted(1) <=>
            /\ in_orders[1].sell_amount + in_orders[1].fee_amount > 0
            /\ in_orders[1].sell_amount + in_orders[1].fee_amount
                 <= in_balances[QueryFromOrder(in_orders[1])])

\* a fill-or-kill buy order with the largest buy_amount, executed, is admitted
C27_Witness ==
  /\ fn_pc = "done"
  /\ ~in_orders[1].partially_fillable
  /\ in_orders[1].kind = "buy"
  /\ in_orders[1].buy_amount = U256Max
  /\ in_orders[1].executed_buy_amount = U256Max
  /\ in_orders[1].sell_amount + in_orders[1].fee_amount = 2
  /\ Admitted(1)

\* C23: the published balance map is rebuilt each cycle - new_balances and
\* the batch for the oracle together hold exactly the queries of the filtered
\* orders; the published balances have exactly the queries of them that did
\* not fail, whatever balances were published before and at whatever block;
\* a cycle without orders publishes no orders, no prices and no balances.
C23_BalanceMapRebuilt ==
  /\ [](upd["task"].pc = "get_balances" =>
          /\ upd["task"].queries = KeysOf(upd["task"].orders)
          /\ DOMAIN upd["task"].new_balances \cup upd["task"].missing_queries
               = upd["task"].queries)
  /\ [](upd["task"].pc = "written" =>
          DOMAIN cache.balances = upd["task"].queries \ upd["task"].failed)
  /\ [][(upd["task"].pc = "written" /\ upd'["task"].pc # "written"
           /\ upd["task"].queries = {}) =>
          /\ cache'.orders.orders = <<>>
          /\ cache'.auction.orders = <<>>
          /\ cache'.auction.prices = EmptyMap
          /\ cache'.balances = EmptyMap]_vars

\* a cycle without orders, at the block of the published state, has replaced
\* published balances by the empty map
C23_Witness ==
  /\ upd["task"].pc = "written"
  /\ upd["task"].queries = {}
  /\ upd["task"].old_block = upd["task"].block
  /\ DOMAIN upd["task"].old_cached # {}
  /\ cache.balances = EmptyMap
  /\ cache.orders.orders = <<>>

\* every order carries the balance published for its pool
CarriesPoolBalance(orders) ==
  \A i \in DOMAIN orders :
    /\ orders[i].available_balance.some
    /\ orders[i].available_balance = Get(cache.balances, QueryFromOrder(orders[i]))

\* C24: every published order carries as available_balance the published
\* balance of its pool, never none - the orders of cached_solvable_orders at
\* any time, those of the auction whenever the Mutex is free.
C24_AvailableBalanceIsPoolBalance ==
  /\ CarriesPoolBalance(cache.orders.orders)
  /\ lock = "free" => CarriesPoolBalance(cache.auction.orders)

\* two published orders of one pool together need the whole balance of the
\* pool, and both carry the whole balance
C24_Witness ==
  /\ lock = "free"
  /\ \E i, j \in DOMAIN cache.auction.orders :
       LET a == cache.auction.orders[i]
           b == cache.auction.orders[j]
       IN  /\ i # j
           /\ QueryFromOrder(a) = QueryFromOrder(b)
           /\ MaxTransferOutAmount(a).val + MaxTransferOutAmount(b).val
                = cache.balances[QueryFromOrder(a)]
           /\ a.available_balance = Some(cache.balances[QueryFromOrder(a)])
           /\ b.available_balance = a.available_balance

\* v is the integer part of 1e18 * price
IsIntegerPart(v, price) ==
  v * PriceDen <= PriceScale * price.num /\ PriceScale * price.num < (v + 1) * PriceDen

\* 1 <= 1e18 * price < 2^256 for a finite price: the integer part is a
\* non-zero U256
InRange(price) ==
  price.class = "finite" /\ \E v \in 1..U256Max : IsIntegerPart(v, price)

\* C25: price normalization - a token answered with a price p gets a price
\* exactly when p is finite and 1 <= 1e18 * p < 2^256, and the price then is
\* the integer part of 1e18 * p; a token answered with 0, a negative price,
\* an infinite price, NaN, 1e18 * p below 1 or 1e18 * p = 2^256 (or with an
\* error) has no price.
C25_PriceNormalization ==
  upd["task"].pc = "prices" =>
    \A t \in DOMAIN upd["task"].answers :
      LET answer == upd["task"].answers[t]
      IN  /\ t \in DOMAIN upd["task"].prices <=> (answer.ok /\ InRange(answer.val))
          /\ t \in DOMAIN upd["task"].prices =>
               /\ upd["task"].prices[t] \in 1..U256Max
               /\ IsIntegerPart(upd["task"].prices[t], answer.val)

\* one token was answered with 0.5 and has the price 1e18 / 2, the other was
\* answered with 2^256 / 1e18 and has no price
C25_Witness ==
  /\ upd["task"].pc = "prices"
  /\ \E t1, t2 \in DOMAIN upd["task"].answers :
       /\ upd["task"].answers[t1] = OkPrice(Finite(HalfPriceNum))
       /\ HalfPriceNum * 2 = PriceDen
       /\ upd["task"].prices[t1] * 2 = PriceScale
       /\ upd["task"].answers[t2].ok
       /\ upd["task"].answers[t2].val.class = "finite"
       /\ PriceScale * upd["task"].answers[t2].val.num = (U256Max + 1) * PriceDen
       /\ t2 \notin DOMAIN upd["task"].prices

NoDuplicateUids(orders) ==
  \A i, j \in DOMAIN orders : orders[i].uid = orders[j].uid => i = j

Considered(q) == GroupOf(SortNewestFirst(in_orders), q)

\* what the admitted orders among the first n considered leave of the balance
RemainingAfter(q, n) ==
  in_balances[q]
    - SumNeeded(SelectSeq(SubSeq(Considered(q), 1, n),
                          LAMBDA o : o.uid \in UidsOf(out_orders)))

\* C28: skip and continue - in every pool with a balance, each order is
\* admitted exactly if it asks for balance and its need is within what the
\* orders admitted before it left: an order that does not fit takes nothing
\* from the balance and the orders after it are still considered.
C28_SkipAndContinue ==
  fn_pc = "done" =>
    \A q \in DOMAIN in_balances :
      \A n \in DOMAIN Considered(q) :
        LET order == Considered(q)[n]
        IN  order.uid \in UidsOf(out_orders)
              <=> /\ NeedsBalance(order)
                  /\ MaxTransferOutAmount(order).val <= RemainingAfter(q, n - 1)

\* a newer order needs more than the balance and is skipped, and an older
\* order of the pool that needs the whole balance is admitted
C28_Witness ==
  /\ fn_pc = "done"
  /\ \E i, j \in DOMAIN in_orders :
       LET q == QueryFromOrder(in_orders[i])
       IN  /\ QueryFromOrder(in_orders[j]) = q
           /\ q \in DOMAIN in_balances
           /\ in_orders[i].creation_date > in_orders[j].creation_date
           /\ NeedsBalance(in_orders[i])
           /\ MaxTransferOutAmount(in_orders[i]).val > in_balances[q]
           /\ MaxTransferOutAmount(in_orders[j]).val = in_balances[q]
           /\ in_balances[q] > 0
           /\ ~Admitted(i)
           /\ Admitted(j)

\* C29: block gating of balances - when update reads old_balances, the
\* balances it keeps are the published balances of its orders' queries if
\* its block is the published block and none otherwise, and every other query
\* of its orders is in the one batch for the balance fetcher; the batch is a
\* set, answered in one step.
C29_BlockGating ==
  /\ [][(upd["task"].pc = "read_old" /\ upd'["task"].pc # "read_old") =>
          LET old == upd["task"]
              new == upd'["task"]
          IN  /\ new.pc = "get_balances"
              /\ new.new_balances =
                   IF cache.orders.block = old.block
                   THEN [q \in KeysOf(old.orders) \cap DOMAIN cache.balances |->
                           cache.balances[q]]
                   ELSE EmptyMap
              /\ new.missing_queries = KeysOf(old.orders) \ DOMAIN new.new_balances]_vars
  /\ [](upd["task"].pc = "get_balances" =>
          IF upd["task"].block = upd["task"].old_block
          THEN \A q \in upd["task"].queries \cap DOMAIN upd["task"].old_cached :
                 /\ q \notin upd["task"].missing_queries
                 /\ Get(upd["task"].new_balances, q) = Some(upd["task"].old_cached[q])
          ELSE /\ upd["task"].new_balances = EmptyMap
               /\ upd["task"].missing_queries = upd["task"].queries)
  /\ [][(upd["task"].pc = "get_balances" /\ upd'["task"].pc # "get_balances") =>
          /\ upd'["task"].pc = "prices"
          /\ upd'["task"].missing_queries = {}
          /\ DOMAIN upd'["task"].new_balances \subseteq
               DOMAIN upd["task"].new_balances \cup upd["task"].missing_queries]_vars

\* the block differs from the published block, and a query with a published
\* balance is in the batch for the balance fetcher
C29_Witness ==
  /\ upd["task"].pc = "get_balances"
  /\ upd["task"].block # upd["task"].old_block
  /\ upd["task"].new_balances = EmptyMap
  /\ upd["task"].missing_queries \cap DOMAIN upd["task"].old_cached # {}
  /\ cache.balances = upd["task"].old_cached

\* C30: block unknown - the step after the wake-up reads the block number as
\* it is then: with a number the update starts with that number; without one
\* the task is back at the top of the loop and nothing else has changed (no
\* call of the order store, of an oracle or of the metrics sink, the published
\* state as it was), and from the top of the loop it waits again.
C30_BlockUnknown ==
  /\ [][(upd["task"].pc = "woken" /\ upd'["task"].pc # "woken") =>
          IF current_block.some
          THEN /\ upd'["task"].pc = "load"
               /\ upd'["task"].block = current_block.val
          ELSE /\ upd' = [upd EXCEPT !["task"].pc = "top"]
               /\ cache' = cache
               /\ metrics' = metrics
               /\ lock' = lock]_vars
  /\ [][(upd["task"].pc = "top" /\ upd'["task"].pc # "top" /\ strong > 0) =>
          upd'["task"].pc \in {"waiting", "woken"}]_vars
  /\ [](upd["task"].pc = "load" => upd["task"].block \in {b.val : b \in {c \in env.blocks : c.some}})

\* a requested update woke the loop while no block number was known: the loop
\* is back at the top, the request was not served, the published orders are
\* still there
C30_Witness ==
  /\ upd["task"].pc = "top"
  /\ ~current_block.some
  /\ req_pending /\ ~permit /\ ~waiter_notified
  /\ strong > 0
  /\ cache.orders.orders # <<>>

(***************************************************************************)
(* Properties of the refresh loop and of whole cycles.                     *)
(***************************************************************************)
\* C31: sole termination condition - the task exits only from the top of the
\* loop and only when no strong reference is left: while a reference exists
\* it has not exited, whatever the result of the last cycle, the block number
\* or the requests; from the top of the loop with a reference it goes on to
\* wait (a stored notification ends that wait at once); and every cycle that
\* has started comes back to the top of the loop.
C31_SoleTermination ==
  /\ [][(upd["task"].pc # "exited" /\ upd'["task"].pc = "exited") =>
          (upd["task"].pc = "top" /\ strong = 0)]_vars
  /\ [](strong > 0 => upd["task"].pc # "exited")
  /\ [][(upd["task"].pc = "top" /\ strong > 0 /\ upd'["task"].pc # "top") =>
          (upd'["task"].pc \in {"waiting", "woken"} /\ wait_calls' = 0)]_vars
  /\ (InFlight("task") \/ upd["task"].pc = "woken") ~> (upd["task"].pc = "top")
  /\ (upd["task"].pc = "top" /\ strong > 0) ~>
       (strong = 0 \/ upd["task"].pc \in {"waiting", "woken"})

\* the loop waits again after a failed cycle, a reference still held and a
\* request stored
C31_Witness ==
  /\ upd["task"].pc = "waiting"
  /\ upd["task"].result = "err"
  /\ strong > 0
  /\ req_pending

\* the tokens the price stream has answered with an error
ErrorAnswers(u) == {t \in DOMAIN upd[u].answers : ~upd[u].answers[t].ok}

\* C32: exact metrics - the auction_updated call of a cycle reports as
\* solvable the number of orders the price stage returns, which is the number
\* of orders the cycle publishes; solvable + filtered is the number of orders
\* that entered the price stage; errored_estimates is the number of error
\* results the price stream yielded before the stage ended (a price that does
\* not normalise is not an error result).
C32_MetricsExact ==
  /\ [](upd["task"].pc = "prices" =>
          upd["task"].errored_estimates = Cardinality(ErrorAnswers("task")))
  /\ [][(upd["task"].pc = "prices" /\ upd'["task"].pc # "prices") =>
          /\ metrics'.last.solvable_orders = Len(upd'["task"].orders)
          /\ metrics'.last.solvable_orders + metrics'.last.filtered_orders
               = Len(upd["task"].orders)
          /\ metrics'.last.errored_estimates = Cardinality(ErrorAnswers("task"))
          /\ metrics'.last.timeout \in BOOLEAN]_vars
  /\ [](Publishing("task") => metrics.last.solvable_orders = Len(upd["task"].orders))
  /\ [][(Publishing("task") /\ ~Publishing("task")') =>
          /\ Len(cache'.orders.orders) = metrics.last.solvable_orders
          /\ Len(cache'.auction.orders) = metrics.last.solvable_orders]_vars

\* a call that reports an order kept, two orders filtered, one error result
\* and one price that did not normalise, before the deadline
C32_Witness ==
  /\ upd["task"].pc = "lock_publish"
  /\ metrics.last = [solvable_orders |-> 1, filtered_orders |-> 2,
                     errored_estimates |-> 1, timeout |-> FALSE]
  /\ Len(upd["task"].orders) = 1

\* the tokens the price stream has answered with a price that normalises
ValidAnswers(u) ==
  {t \in DOMAIN upd[u].answers :
     upd[u].answers[t].ok /\ ToNormalizedPrice(upd[u].answers[t].val).some}

\* C33: a price error does not cancel the siblings - an item of the price
\* stream, whatever it is and whatever came before it, leaves the stage
\* consuming: it answers one token, adds the normalised price of that token
\* if there is one and changes no other price; so while the stage runs the
\* prices recorded are exactly the normalised prices of the tokens answered
\* with a valid price, error results and invalid prices of other tokens
\* notwithstanding.
C33_ErrorsDoNotCancelSiblings ==
  /\ [][(upd["task"].pc = "prices" /\ upd'["task"].pc = "prices"
         /\ upd'["task"] # upd["task"]) =>
          \E t \in upd["task"].pending :
            /\ upd'["task"].pending = upd["task"].pending \ {t}
            /\ DOMAIN upd'["task"].answers = DOMAIN upd["task"].answers \cup {t}
            /\ \A s \in DOMAIN upd["task"].prices :
                 Get(upd'["task"].prices, s) = Some(upd["task"].prices[s])
            /\ LET result == upd'["task"].answers[t]
                   price == IF result.ok THEN ToNormalizedPrice(result.val) ELSE None
               IN  IF price.some
                   THEN upd'["task"].prices = Put(upd["task"].prices, t, price.val)
                   ELSE upd'["task"].prices = upd["task"].prices]_vars
  /\ [](upd["task"].pc = "prices" =>
          /\ DOMAIN upd["task"].prices = ValidAnswers("task")
          /\ \A t \in ValidAnswers("task") :
               upd["task"].prices[t] = ToNormalizedPrice(upd["task"].answers[t].val).val)

\* the stream has answered one token with an error and another one with a
\* valid price, which is recorded, and the stage is still consuming
C33_Witness ==
  /\ upd["task"].pc = "prices"
  /\ ErrorAnswers("task") # {}
  /\ upd["task"].errored_estimates = 1
  /\ \E t \in ValidAnswers("task") : t \in DOMAIN upd["task"].prices
  /\ upd["task"].pending # {}

\* the awaits of update on a collaborator
AwaitsCollaborator(u) == upd[u].pc \in {"load", "detect", "get_balances", "prices"}

\* C34 as stated: every suspension point respects the deadline - a cycle
\* waiting for the order store, the bad token detector, the balance fetcher
\* or the price stream ends, whether or not the collaborator answers.
C34_EverySuspensionBounded ==
  AwaitsCollaborator("task") ~> (upd["task"].pc = "top")

\* C34, amended: only the price stage has a deadline - a cycle waiting for
\* the price stream ends whether or not the stream yields anything, it
\* publishes and returns Ok, and the loop goes on to its next wait while a
\* reference is held; the cycle leaves the order-store load, the bad-token
\* query and the balance fetch only by the collaborator's answer.
C34_OnlyPriceStageBounded ==
  /\ (upd["task"].pc = "prices") ~> (upd["task"].pc = "top" /\ upd["task"].result = "ok")
  /\ (upd["task"].pc = "prices" /\ strong > 0) ~>
       (strong = 0 \/ upd["task"].pc \in {"waiting", "woken"})
  /\ [][(upd["task"].pc = "prices" /\ upd'["task"].pc # "prices") =>
          /\ upd'["task"].pc = "lock_publish"
          /\ (upd["task"].pending # {} => metrics'.last.timeout)]_vars
  /\ [][(upd["task"].pc \in {"load", "detect", "get_balances"}
         /\ upd'["task"].pc # upd["task"].pc) =>
          \/ /\ upd["task"].pc = "load"
             /\ \E r \in env.db_results :
                  IF r.ok THEN upd'["task"].pc = "detect"
                  ELSE upd'["task"].pc = "top" /\ upd'["task"].result = "err"
          \/ /\ upd["task"].pc = "detect"
             /\ \E d \in env.bad_token_results :
                  IF d.ok THEN upd'["task"].pc = "lock_old"
                  ELSE upd'["task"].pc = "top" /\ upd'["task"].result = "err"
          \/ /\ upd["task"].pc = "get_balances"
             /\ upd'["task"].pc = "prices"
             /\ DOMAIN upd'["task"].new_balances \subseteq
                  DOMAIN upd["task"].new_balances \cup upd["task"].missing_queries]_vars

\* the price stream yielded nothing, the deadline ended the stage, and the
\* cycle is publishing
C34_Witness ==
  /\ upd["task"].pc = "written"
  /\ metrics.last = [solvable_orders |-> 0, filtered_orders |-> 1,
                     errored_estimates |-> 0, timeout |-> TRUE]
  /\ upd["task"].prices = EmptyMap
  /\ strong > 0

\* C35: periodic retry - with request_update never called no notification
\* exists, and still, as long as a reference is held, the loop wakes up again
\* and again, after a failed cycle and after an unknown block as well; as
\* long as the block number is known too, a cycle starts again and again; and
\* a cycle whose order store and bad token detector answer replaces the
\* published state by what it built.
C35_PeriodicRetry ==
  /\ [](~permit /\ ~waiter_notified /\ ~req_pending)
  /\ []<>(strong = 0 \/ upd["task"].pc = "woken")
  /\ []<>(strong = 0 \/ ~current_block.some \/ upd["task"].pc = "load")
  /\ (upd["task"].pc = "top" /\ upd["task"].result = "err" /\ strong > 0) ~>
       (strong = 0 \/ upd["task"].pc = "woken")
  /\ (upd["task"].pc = "lock_old") ~> (upd["task"].pc = "top" /\ upd["task"].result = "ok")
  /\ [][(upd["task"].pc = "written" /\ upd'["task"].pc # "written") =>
          /\ upd'["task"].result = "ok"
          /\ cache'.orders = BuiltInner("task").orders
          /\ cache'.balances = BuiltInner("task").balances
          /\ cache'.auction = BuiltInner("task").auction]_vars

\* UPDATE_INTERVAL has ended the wait that followed a failed cycle: no request
\* was made, the snapshot of an earlier cycle is still published, and the
\* block is known
C35_Witness ==
  /\ upd["task"].pc = "woken"
  /\ upd["task"].result = "err"
  /\ ~permit /\ ~waiter_notified /\ ~req_pending
  /\ cache.orders.orders # <<>>
  /\ current_block.some
  /\ strong > 0

\* the published state is the one of a cache nothing was published to
CreatedEmpty ==
  /\ cache.orders.orders = <<>>
  /\ cache.orders.block = 0
  /\ cache.orders.latest_settlement_block = 0
  /\ cache.balances = EmptyMap
  /\ cache.auction = [block |-> 0, latest_settlement_block |-> 0, orders |-> <<>>,
                      prices |-> EmptyMap]

\* C36: created empty - after construction the cache holds no orders, block 0,
\* latest_settlement_block 0, no balances and an auction without orders and
\* prices; it changes only in the two steps, taken under the guard, in which
\* a cycle assigns the Inner it built, so it stays as created until the first
\* cycle that succeeds and after that cycle is that Inner as a whole; a reader
\* that returns while the cache is as created returned no orders with block 0
\* and latest_settlement_block 0, an empty auction, or None for its query.
C36_CreatedEmpty ==
  /\ CreatedEmpty
  /\ cache.orders.update_time = now
  /\ [][cache' # cache =>
          \/ /\ upd["task"].pc = "write" /\ lock = "task"
             /\ cache'.orders = BuiltInner("task").orders
             /\ cache'.balances = BuiltInner("task").balances
             /\ cache'.auction = cache.auction
          \/ /\ upd["task"].pc = "written" /\ lock = "task"
             /\ cache'.orders = BuiltInner("task").orders
             /\ cache'.balances = BuiltInner("task").balances
             /\ cache'.auction = BuiltInner("task").auction
             /\ upd'["task"].result = "ok"]_vars
  /\ [][(rd.pc # "returned" /\ rd'.pc = "returned" /\ CreatedEmpty) =>
          CASE rd'.op = "cached_balance" -> rd'.ret = None
            [] rd'.op = "cached_solvable_orders" ->
                 /\ rd'.ret.orders = <<>>
                 /\ rd'.ret.block = 0
                 /\ rd'.ret.latest_settlement_block = 0
            [] rd'.op = "cached_auction" ->
                 rd'.ret[1] = [block |-> 0, latest_settlement_block |-> 0,
                               orders |-> <<>>, prices |-> EmptyMap]]_vars

\* a cycle has failed, nothing was published yet, and a reader got the empty
\* auction
C36_Witness ==
  /\ CreatedEmpty
  /\ upd["task"].result = "err"
  /\ rd.pc = "returned"
  /\ rd.op = "cached_auction"
  /\ rd.ret[1].orders = <<>>
  /\ rd.ret[1].prices = EmptyMap
  /\ now > 0

\* C37: the two views agree - whenever no cycle holds the guard of the cache,
\* the orders of the auction are the sequence of the solvable orders, and the
\* auction's block and latest_settlement_block are those of the solvable
\* orders.
C37_ViewsAgree ==
  lock \notin DOMAIN upd =>
    /\ cache.auction.orders = cache.orders.orders
    /\ cache.auction.block = cache.orders.block
    /\ cache.auction.latest_settlement_block = cache.orders.latest_settlement_block

\* a published state with two orders, at block 1 and settlement block 1
C37_Witness ==
  /\ lock = "free"
  /\ Len(cache.auction.orders) = 2
  /\ cache.auction.orders = cache.orders.orders
  /\ cache.auction.block = 1
  /\ cache.orders.latest_settlement_block = 1

\* how often the order, whatever its available_balance, is in the orders
CountOf(orders, order) ==
  Cardinality({i \in DOMAIN orders : Stripped(orders)[i] = Stripped(<<order>>)[1]})

\* every order is in `loaded`, and at most as often as there
FromStore(orders, loaded) ==
  \A i \in DOMAIN orders :
    /\ CountOf(loaded, orders[i]) >= 1
    /\ CountOf(orders, orders[i]) <= CountOf(loaded, orders[i])

\* C38: no order is invented or duplicated - at every step of a cycle after
\* the load, the orders it holds are orders the order store answered with in
\* this cycle, equal to them in every field but available_balance and not
\* more often than the store answered with them; the orders the cycle
\* publishes, in both views, are these orders.
C38_NothingInvented ==
  /\ [](InFlight("task") => FromStore(upd["task"].orders, upd["task"].loaded))
  /\ [][(upd["task"].pc = "written" /\ upd'["task"].pc # "written") =>
          /\ cache'.orders.orders = upd["task"].orders
          /\ cache'.auction.orders = upd["task"].orders
          /\ FromStore(cache'.orders.orders, upd["task"].loaded)
          /\ FromStore(cache'.auction.orders, upd["task"].loaded)]_vars

\* the store answered with an order twice and with another order; the cycle
\* is publishing the first order twice, with its balance, and not the other
C38_Witness ==
  /\ upd["task"].pc = "written"
  /\ Len(upd["task"].loaded) = 3
  /\ Len(upd["task"].orders) = 2
  /\ upd["task"].orders[1] = upd["task"].orders[2]
  /\ upd["task"].orders[1].available_balance = Some(5)
  /\ cache.orders.orders = upd["task"].orders

\* the places of one iteration of update_task in the order the task passes
\* them, from the wait to the upgrade of the next iteration and the exit
IterationOrder ==
  <<"waiting", "woken", "load", "detect", "lock_old", "read_old", "get_balances",
    "prices", "lock_publish", "write", "written", "top", "exited">>

PlaceOf(pc) == CHOOSE i \in DOMAIN IterationOrder : IterationOrder[i] = pc

\* C39: at most one more cycle - once the last reference is dropped the task
\* only moves forward in the iteration it was in at the drop: it starts a
\* cycle only if it was waiting or had just woken up at the drop, that cycle
\* publishes like any other, no wait and no second cycle follows, the next
\* upgrade ends the task, and the task does end.
C39_AtMostOneMoreCycle ==
  /\ [](strong = 0 => PlaceOf(upd["task"].pc) >= PlaceOf(dropped_at))
  /\ [][(strong = 0 /\ strong' = 0 /\ upd'["task"].pc # upd["task"].pc) =>
          PlaceOf(upd'["task"].pc) > PlaceOf(upd["task"].pc)]_vars
  /\ [][(strong = 0 /\ upd["task"].pc # "load" /\ upd'["task"].pc = "load") =>
          dropped_at \in {"waiting", "woken"}]_vars
  /\ [][(strong = 0 /\ upd["task"].pc = "written" /\ upd'["task"].pc # "written") =>
          /\ upd'["task"].pc = "top"
          /\ cache'.orders.orders = upd["task"].orders
          /\ cache'.auction.orders = upd["task"].orders]_vars
  /\ (strong = 0 /\ upd["task"].pc = "top") ~> (upd["task"].pc = "exited")
  /\ [](upd["task"].pc = "exited" => [](upd["task"].pc = "exited"))

\* the last reference was dropped after the wake-up, before update was
\* called; the cycle of that iteration is publishing an order
C39_Witness ==
  /\ strong = 0
  /\ dropped_at = "woken"
  /\ upd["task"].pc = "written"
  /\ cache.orders.orders # <<>>
  /\ cache.orders.orders = upd["task"].orders

\* the steps of update after the order-store load and the bad-token filtering
AfterFirstTwoSteps(u) ==
  upd[u].pc \in {"lock_old", "read_old", "get_balances", "prices", "lock_publish",
                 "write", "written"}

\* C40: a cycle fails only in its first two steps - update returns an error
\* only from the order-store load or from the bad-token filtering; past them
\* the only way out of update is the assignment of the built Inner to the
\* cache with the result Ok, whatever the balance fetcher answers (errors, or
\* fewer results than queries) and whatever ends the price stage; and a cycle
\* past the two steps gets there.
C40_FailsOnlyInFirstTwoSteps ==
  /\ [][(InFlight("task") /\ ~InFlight("task")') =>
          IF upd'["task"].result = "err"
          THEN upd["task"].pc \in {"load", "detect"} /\ cache' = cache
          ELSE /\ upd["task"].pc = "written"
               /\ upd'["task"].result = "ok"
               /\ cache'.orders = BuiltInner("task").orders
               /\ cache'.balances = BuiltInner("task").balances
               /\ cache'.auction = BuiltInner("task").auction]_vars
  /\ [][AfterFirstTwoSteps("task") =>
          (AfterFirstTwoSteps("task")' \/ upd'["task"].result = "ok")]_vars
  /\ AfterFirstTwoSteps("task") ~> (upd["task"].pc = "top" /\ upd["task"].result = "ok")

\* the balance fetcher answered one of two queries, the deadline ended the
\* price stage before any price, and the cycle is publishing: no orders, the
\* one balance, the settlement block of this load
C40_Witness ==
  /\ upd["task"].pc = "written"
  /\ Cardinality(upd["task"].queries) = 2
  /\ upd["task"].failed = {}
  /\ Cardinality(DOMAIN upd["task"].new_balances) = 1
  /\ metrics.last.timeout
  /\ metrics.last.filtered_orders = 1
  /\ cache.orders.orders = <<>>
  /\ cache.balances = upd["task"].new_balances
  /\ cache.orders.latest_settlement_block = 1

=============================================================================
